---- MODULE Spec2Model ----
(***************************************************************************)
(* librudp: the per-peer protocol engine (src/src/peer.c), the client      *)
(* shell (src/src/client.c) and the server demultiplexer (server.c, found  *)
(* in src/include/rudp/list.h from line 232 on), over a datagram network   *)
(* that loses, duplicates and reorders.                                    *)
(*                                                                         *)
(* The engine's C functions are operators over a context record            *)
(*   c = [p, tx, up, dropped]                                              *)
(* where p is struct rudp_peer, tx the datagrams handed to the endpoint    *)
(* during the call, up the packets passed to handler->handle_packet and    *)
(* dropped the number of handler->dropped invocations.  Every handler of   *)
(* the event loop is one action.                                           *)
(***************************************************************************)
EXTENDS Integers, Sequences, FiniteSets, TLC

VARIABLES now, client, server, net, app, obs, ev

vars == <<now, client, server, net, app, obs, ev>>

(***************************************************************************)
(* Program constants                                                       *)
(***************************************************************************)
ACTION_TIMEOUT == 5000
DROP_TIMEOUT == ACTION_TIMEOUT * 2
MAX_RTO == 3000

RUDP_CMD_NOOP == 0
RUDP_CMD_CLOSE == 1
RUDP_CMD_CONN_REQ == 2
RUDP_CMD_CONN_RSP == 3
RUDP_CMD_PING == 4
RUDP_CMD_PONG == 5
RUDP_CMD_APP == 16

RUDP_OPT_RELIABLE == 1
RUDP_OPT_ACK == 2
RUDP_OPT_RETRANSMITTED == 4

PEER_NEW == 0
PEER_RUN == 1
PEER_CONNECTING == 2
PEER_DEAD == 3

SEQUENCED == 0
UNSEQUENCED == 1
RETRANSMITTED == 2

EINVAL == 22
EDESTADDRREQ == 89
ENETUNREACH == 101

\* sizeof(struct rudp_packet_header), sizeof(struct rudp_packet_conn_req),
\* sizeof(struct rudp_packet_conn_rsp), sizeof(rudp_time_t)
HeaderSize == 8
ConnReqSize == 12
ConnRspSize == 12
TimeSize == 8

(***************************************************************************)
(* Bounds of the model                                                     *)
(***************************************************************************)
\* application sends accepted per side
MaxSend == 2
\* calls of rudp_client_connect, over all specifications
MaxConnect == 2
\* calls of rudp_client_connect where one connection carries data
DataConnects == 1
\* application sends accepted by the server
MaxReply == 1
\* datagrams in flight; a datagram sent into a full network is lost
MaxNet == 3
\* the clock stops advancing here
MaxTime == 3100
\* datagrams the network may destroy
MaxLoss == 1
\* application sends accepted where connections come and go
LifeSend == 1
\* the clock stops here where connections come and go
LifeTime == 10001
\* datagrams of arbitrary content that reach an endpoint
MaxForged == 1
\* application sends accepted where datagrams of arbitrary content arrive
OpenSend == 1
\* the clock stops here where either side closes
ShutTime == 10001
\* application sends accepted per side where every timer is left to run
FairSend == 1
\* the applications send up to this time where every timer is left to run
SendBy == 100
\* the clock stops here where every timer is left to run
FairTime == 25000
\* deliveries of a datagram that stays in flight (duplication)
MaxDup == 1
\* the client's application sends one packet every StreamPeriod milliseconds
StreamPeriod == 2500
\* packets of that stream
StreamSend == 5
\* the clock of the stream stops advancing here
StreamTime == 13000

\* round-trip samples, in milliseconds, where only the timeout state moves
MaxSample == 2
\* values rudp_random may return (uint16_t); chosen around the wrap
RandomSeqs == {65533, 65534, 65535}

(***************************************************************************)
(* 16-bit arithmetic: uint16_t fields and the (int16_t) deltas             *)
(***************************************************************************)
U16(x) == x % 65536

S16(x) == LET u == x % 65536 IN IF u >= 32768 THEN u - 65536 ELSE u

HasOpt(opt, flag) == (opt \div flag) % 2 = 1

SetOpt(opt, flag) == IF HasOpt(opt, flag) THEN opt ELSE opt + flag

labs(x) == IF x < 0 THEN 0 - x ELSE x

(***************************************************************************)
(* Packets: struct rudp_packet_header plus payload and datagram length     *)
(***************************************************************************)
Packet(cmd, len, data) ==
    [command |-> cmd, opt |-> 0, reliable_ack |-> 0, reliable |-> 0,
     unreliable |-> 0, len |-> len, data |-> data]

\* late counts the reads and writes of the peer structure that the engine
\* makes after its dropped handler has returned
Ctx(p) ==
    [p |-> p, tx |-> <<>>, up |-> <<>>, dropped |-> 0, err |-> 0, late |-> 0]

RemoveAt(q, i) == SubSeq(q, 1, i - 1) \o SubSeq(q, i + 1, Len(q))

(***************************************************************************)
(* struct rudp_peer before rudp_peer_init: no timer source, empty list     *)
(***************************************************************************)
NoPeer ==
    [state |-> PEER_NEW, abs_timeout_deadline |-> 0, last_out_time |-> 0,
     srtt |-> 0, rttvar |-> 0, rto |-> 0,
     in_seq_reliable |-> 0, in_seq_unreliable |-> 0,
     out_seq_reliable |-> 0, out_seq_unreliable |-> 0, out_seq_acked |-> 0,
     must_ack |-> FALSE, scheduled |-> FALSE, wake |-> 0,
     sendq |-> <<>>, sendto_err |-> 0, source |-> FALSE]

(***************************************************************************)
(* peer.c: object management                                               *)
(***************************************************************************)
rudp_peer_reset(p, t, rnd) ==
    [p EXCEPT !.sendq = <<>>,
              !.scheduled = FALSE,
              !.wake = 0,
              !.abs_timeout_deadline = t + DROP_TIMEOUT,
              !.in_seq_reliable = U16(0 - 1),
              !.in_seq_unreliable = 0,
              !.out_seq_reliable = rnd,
              !.out_seq_unreliable = 0,
              !.out_seq_acked = U16(rnd - 1),
              !.state = PEER_NEW,
              !.last_out_time = t,
              !.srtt = 100,
              !.rttvar = 100 \div 2,
              !.rto = MAX_RTO,
              !.must_ack = FALSE,
              !.sendto_err = 0]

peer_service_schedule(p, t) ==
    LET base == IF p.sendq = <<>> THEN ACTION_TIMEOUT
                ELSE IF HasOpt(Head(p.sendq).opt, RUDP_OPT_RETRANSMITTED)
                     THEN t - p.last_out_time + p.rto
                     ELSE 0
        to_delta == p.abs_timeout_deadline - t
        clipped == IF to_delta < base THEN to_delta ELSE base
        delta == IF clipped <= 0 THEN 1 ELSE clipped
    IN  [p EXCEPT !.scheduled = TRUE, !.wake = t + delta]

rudp_peer_init(t, rnd) ==
    peer_service_schedule(
        rudp_peer_reset([NoPeer EXCEPT !.source = TRUE], t, rnd), t)

rudp_peer_deinit(p, t, rnd) ==
    [rudp_peer_reset(p, t, rnd) EXCEPT !.source = FALSE]

\* peer_update_rtt, the variance taken against the smoothed value just stored
peer_update_rtt_after(p, last_rtt) ==
    LET srtt == (7 * p.srtt + last_rtt) \div 8
    IN  [p EXCEPT !.rttvar = (3 * p.rttvar + labs(srtt - last_rtt)) \div 4,
                  !.srtt = srtt,
                  !.rto = IF srtt > MAX_RTO THEN MAX_RTO ELSE srtt]

peer_update_rtt(p, last_rtt) ==
    LET rttvar == (3 * p.rttvar + labs(p.srtt - last_rtt)) \div 4
        srtt == (7 * p.srtt + last_rtt) \div 8
    IN  [p EXCEPT !.rttvar = rttvar,
                  !.srtt = srtt,
                  !.rto = IF srtt > MAX_RTO THEN MAX_RTO ELSE srtt]

peer_rto_backoff(p) ==
    [p EXCEPT !.rto = IF p.rto * 2 > MAX_RTO THEN MAX_RTO ELSE p.rto * 2]

(***************************************************************************)
(* peer.c: sync handling.  Each analysis yields the classification and     *)
(* the peer with its inbound counters advanced.                            *)
(***************************************************************************)
\* a receiver that takes the sequence it already has as the next one
peer_analyse_reliable_again(p, reliable_seq) ==
    IF U16(p.in_seq_reliable + 1) # reliable_seq /\ p.in_seq_reliable # reliable_seq
    THEN [state |-> UNSEQUENCED, p |-> p]
    ELSE [state |-> SEQUENCED,
          p |-> [p EXCEPT !.in_seq_reliable = reliable_seq,
                          !.in_seq_unreliable = 0]]

peer_analyse_reliable(p, reliable_seq) ==
    IF p.in_seq_reliable = reliable_seq
    THEN [state |-> RETRANSMITTED, p |-> p]
    ELSE IF U16(p.in_seq_reliable + 1) # reliable_seq
    THEN [state |-> UNSEQUENCED, p |-> p]
    ELSE [state |-> SEQUENCED,
          p |-> [p EXCEPT !.in_seq_reliable = reliable_seq,
                          !.in_seq_unreliable = 0]]

\* a receiver that sequences unreliable packets by their own counter only
peer_analyse_unreliable_any(p, reliable_seq, unreliable_seq) ==
    IF S16(unreliable_seq - p.in_seq_unreliable) <= 0
    THEN [state |-> UNSEQUENCED, p |-> p]
    ELSE [state |-> SEQUENCED,
          p |-> [p EXCEPT !.in_seq_unreliable = unreliable_seq]]

peer_analyse_unreliable(p, reliable_seq, unreliable_seq) ==
    IF p.in_seq_reliable # reliable_seq
    THEN [state |-> UNSEQUENCED, p |-> p]
    ELSE IF S16(unreliable_seq - p.in_seq_unreliable) <= 0
    THEN [state |-> UNSEQUENCED, p |-> p]
    ELSE [state |-> SEQUENCED,
          p |-> [p EXCEPT !.in_seq_unreliable = unreliable_seq]]

(***************************************************************************)
(* peer.c: sender functions                                                *)
(***************************************************************************)
rudp_peer_send_unreliable(p, pc, t) ==
    LET seq == U16(p.out_seq_unreliable + 1)
        q == [pc EXCEPT !.opt = 0,
                        !.reliable = p.out_seq_reliable,
                        !.unreliable = seq]
    IN  peer_service_schedule(
            [p EXCEPT !.out_seq_unreliable = seq,
                      !.sendq = Append(@, q)], t)

\* a reliable enqueue that lets the unreliable sequence run on
rudp_peer_send_reliable_keep(p, pc, t) ==
    LET seq == U16(p.out_seq_reliable + 1)
        q == [pc EXCEPT !.opt = RUDP_OPT_RELIABLE,
                        !.reliable = seq,
                        !.unreliable = 0]
    IN  peer_service_schedule(
            [p EXCEPT !.out_seq_reliable = seq,
                      !.sendq = Append(@, q)], t)

rudp_peer_send_reliable(p, pc, t) ==
    LET seq == U16(p.out_seq_reliable + 1)
        q == [pc EXCEPT !.opt = RUDP_OPT_RELIABLE,
                        !.reliable = seq,
                        !.unreliable = 0]
    IN  peer_service_schedule(
            [p EXCEPT !.out_seq_reliable = seq,
                      !.out_seq_unreliable = 0,
                      !.sendq = Append(@, q)], t)

\* peer_send_raw, the result of rudp_endpoint_send not stored
peer_send_raw_unrecorded(c, data, t) ==
    [c EXCEPT !.p.last_out_time = t,
              !.tx = Append(@, data)]

\* rudp_endpoint_send succeeds: the datagram is handed to the network
peer_send_raw(c, data, t) ==
    [c EXCEPT !.p.sendto_err = 0,
              !.p.last_out_time = t,
              !.tx = Append(@, data)]

rudp_peer_send_connect(p, t) ==
    rudp_peer_send_reliable([p EXCEPT !.state = PEER_CONNECTING],
                            Packet(RUDP_CMD_CONN_REQ, ConnReqSize, 0), t)

rudp_peer_send_close_noqueue(c, t) ==
    LET seq == U16(c.p.out_seq_unreliable + 1)
        header == [Packet(RUDP_CMD_CLOSE, HeaderSize, 0) EXCEPT
                      !.reliable = c.p.out_seq_reliable,
                      !.unreliable = seq]
    IN  peer_send_raw([c EXCEPT !.p.out_seq_unreliable = seq], header, t)

peer_ping(p, t) ==
    rudp_peer_send_reliable(p, Packet(RUDP_CMD_PING, HeaderSize + TimeSize, t), t)

(***************************************************************************)
(* peer.c: ack handling.  peer_handle_ack_broken is the function's return  *)
(* value, peer_handle_ack the peer it leaves.                              *)
(***************************************************************************)
\* a sanity test that lets an ACK one past the last sequence sent through
peer_handle_ack_lenient(p, ack) ==
    /\ ~(S16(ack - p.out_seq_acked) < 0)
    /\ S16(ack - p.out_seq_reliable) > 1

peer_handle_ack_broken(p, ack) ==
    /\ ~(S16(ack - p.out_seq_acked) < 0)
    /\ S16(ack - p.out_seq_reliable) > 0

\* unqueueing that does not ask whether a packet has been transmitted
RECURSIVE ack_unqueue_unsent(_, _)
ack_unqueue_unsent(q, ack) ==
    IF q = <<>> THEN q
    ELSE IF ~HasOpt(Head(q).opt, RUDP_OPT_RELIABLE)
    THEN q
    ELSE IF S16(Head(q).reliable - ack) > 0
    THEN q
    ELSE ack_unqueue_unsent(Tail(q), ack)

RECURSIVE ack_unqueue(_, _)
ack_unqueue(q, ack) ==
    IF q = <<>> THEN q
    ELSE IF ~HasOpt(Head(q).opt, RUDP_OPT_RELIABLE)
            \/ ~HasOpt(Head(q).opt, RUDP_OPT_RETRANSMITTED)
    THEN q
    ELSE IF S16(Head(q).reliable - ack) > 0
    THEN q
    ELSE ack_unqueue(Tail(q), ack)

\* ACK handling without the test for an ACK in the past
peer_handle_ack_back(p, ack) ==
    IF S16(ack - p.out_seq_reliable) > 0 THEN p
    ELSE [p EXCEPT !.out_seq_acked = ack,
                   !.sendq = ack_unqueue(@, ack)]

\* ACK handling that notes the acknowledged sequence and unqueues nothing
peer_handle_ack_keep(p, ack) ==
    IF S16(ack - p.out_seq_acked) < 0 THEN p
    ELSE IF S16(ack - p.out_seq_reliable) > 0 THEN p
    ELSE [p EXCEPT !.out_seq_acked = ack]

peer_handle_ack(p, ack) ==
    IF S16(ack - p.out_seq_acked) < 0 THEN p
    ELSE IF S16(ack - p.out_seq_reliable) > 0 THEN p
    ELSE [p EXCEPT !.out_seq_acked = ack,
                   !.sendq = ack_unqueue(@, ack)]

\* an engine that notes the ACK it owes without queueing a carrier for it
peer_post_ack_silent(p, t) == [p EXCEPT !.must_ack = TRUE]

\* an engine that notes the ACK it owes only when it queues a carrier for it
peer_post_ack_carrier(p, t) ==
    IF p.sendq # <<>> THEN p
    ELSE peer_service_schedule(
             rudp_peer_send_unreliable(
                 [p EXCEPT !.must_ack = TRUE],
                 Packet(RUDP_CMD_NOOP, ConnRspSize, 0), t), t)

peer_post_ack(p, t) ==
    LET p1 == [p EXCEPT !.must_ack = TRUE]
    IN  IF p1.sendq # <<>> THEN p1
        ELSE peer_service_schedule(
                 rudp_peer_send_unreliable(
                     p1, Packet(RUDP_CMD_NOOP, ConnRspSize, 0), t), t)

(***************************************************************************)
(* peer.c: receiver functions                                              *)
(***************************************************************************)
\* a receiver that answers a retransmitted PING as well
peer_handle_ping_always(p, in, t) ==
    rudp_peer_send_unreliable(p, Packet(RUDP_CMD_PONG, in.len, in.data), t)

peer_handle_ping(p, in, t) ==
    IF HasOpt(in.opt, RUDP_OPT_RETRANSMITTED) THEN p
    ELSE rudp_peer_send_unreliable(
             p, Packet(RUDP_CMD_PONG, in.len, in.data), t)

peer_handle_pong(p, pc, t) ==
    peer_update_rtt(p, t - pc.data)

peer_handle_connreq(p, t) ==
    peer_service_schedule(
        rudp_peer_send_unreliable(
            p, Packet(RUDP_CMD_CONN_RSP, ConnRspSize, 1), t), t)

\* the switch on the classification; done is TRUE where the C code returns
\* from inside the switch (after the dropped handler)
\* a dispatch that hands application commands up in any state
incoming_dispatch_any_state(c, state, pc, t) ==
    LET p == c.p
        cmd == pc.command
        fresh == [p EXCEPT !.abs_timeout_deadline = t + DROP_TIMEOUT]
    IN  CASE state = UNSEQUENCED ->
               IF p.state = PEER_NEW /\ cmd = RUDP_CMD_CONN_REQ
               THEN [c |-> [c EXCEPT !.p = [peer_handle_connreq(p, t) EXCEPT
                                               !.in_seq_reliable = pc.reliable,
                                               !.state = PEER_RUN]],
                     done |-> FALSE]
               ELSE IF p.state = PEER_CONNECTING /\ cmd = RUDP_CMD_CONN_RSP
               THEN [c |-> [c EXCEPT !.p = [peer_handle_ack(
                                                [p EXCEPT !.in_seq_reliable = pc.reliable],
                                                pc.reliable_ack)
                                            EXCEPT !.state = PEER_RUN]],
                     done |-> FALSE]
               ELSE [c |-> c, done |-> FALSE]
          [] state = RETRANSMITTED ->
               [c |-> [c EXCEPT !.p = fresh], done |-> FALSE]
          [] OTHER ->
               IF cmd = RUDP_CMD_CLOSE
               THEN [c |-> [c EXCEPT !.p = [fresh EXCEPT !.state = PEER_DEAD],
                                     !.dropped = @ + 1,
                                     !.late = @ + 1],
                     done |-> TRUE]
               ELSE IF cmd = RUDP_CMD_PING
               THEN [c |-> [c EXCEPT !.p = IF p.state = PEER_RUN
                                           THEN peer_handle_ping(fresh, pc, t)
                                           ELSE fresh],
                     done |-> FALSE]
               ELSE IF cmd = RUDP_CMD_PONG
               THEN [c |-> [c EXCEPT !.p = IF p.state = PEER_RUN
                                           THEN peer_handle_pong(fresh, pc, t)
                                           ELSE fresh],
                     done |-> FALSE]
               ELSE IF cmd \in {RUDP_CMD_NOOP, RUDP_CMD_CONN_REQ, RUDP_CMD_CONN_RSP}
               THEN [c |-> [c EXCEPT !.p = fresh], done |-> FALSE]
               ELSE IF cmd >= RUDP_CMD_APP
               THEN [c |-> [c EXCEPT !.p = fresh, !.up = Append(@, pc)],
                     done |-> FALSE]
               ELSE [c |-> [c EXCEPT !.p = fresh], done |-> FALSE]

incoming_dispatch(c, state, pc, t) ==
    LET p == c.p
        cmd == pc.command
        fresh == [p EXCEPT !.abs_timeout_deadline = t + DROP_TIMEOUT]
    IN  CASE state = UNSEQUENCED ->
               IF p.state = PEER_NEW /\ cmd = RUDP_CMD_CONN_REQ
               THEN [c |-> [c EXCEPT !.p = [peer_handle_connreq(p, t) EXCEPT
                                               !.in_seq_reliable = pc.reliable,
                                               !.state = PEER_RUN]],
                     done |-> FALSE]
               ELSE IF p.state = PEER_CONNECTING /\ cmd = RUDP_CMD_CONN_RSP
               THEN [c |-> [c EXCEPT !.p = [peer_handle_ack(
                                                [p EXCEPT !.in_seq_reliable = pc.reliable],
                                                pc.reliable_ack)
                                            EXCEPT !.state = PEER_RUN]],
                     done |-> FALSE]
               ELSE [c |-> c, done |-> FALSE]
          [] state = RETRANSMITTED ->
               [c |-> [c EXCEPT !.p = fresh], done |-> FALSE]
          [] OTHER ->
               IF cmd = RUDP_CMD_CLOSE
               THEN [c |-> [c EXCEPT !.p = [fresh EXCEPT !.state = PEER_DEAD],
                                     !.dropped = @ + 1,
                                     !.late = @ + 1],
                     done |-> TRUE]
               ELSE IF cmd = RUDP_CMD_PING
               THEN [c |-> [c EXCEPT !.p = IF p.state = PEER_RUN
                                           THEN peer_handle_ping(fresh, pc, t)
                                           ELSE fresh],
                     done |-> FALSE]
               ELSE IF cmd = RUDP_CMD_PONG
               THEN [c |-> [c EXCEPT !.p = IF p.state = PEER_RUN
                                           THEN peer_handle_pong(fresh, pc, t)
                                           ELSE fresh],
                     done |-> FALSE]
               ELSE IF cmd \in {RUDP_CMD_NOOP, RUDP_CMD_CONN_REQ, RUDP_CMD_CONN_RSP}
               THEN [c |-> [c EXCEPT !.p = fresh], done |-> FALSE]
               ELSE IF p.state # PEER_RUN
               THEN [c |-> [c EXCEPT !.p = fresh], done |-> FALSE]
               ELSE IF cmd >= RUDP_CMD_APP
               THEN [c |-> [c EXCEPT !.p = fresh, !.up = Append(@, pc)],
                     done |-> FALSE]
               ELSE [c |-> [c EXCEPT !.p = fresh], done |-> FALSE]

\* rudp_peer_incoming_packet, the drop deadline refreshed by every packet
\* that gets as far as being classified
rudp_peer_incoming_packet_refresh(c, pc, t) ==
    IF HasOpt(pc.opt, RUDP_OPT_ACK) /\ peer_handle_ack_broken(c.p, pc.reliable_ack)
    THEN [c EXCEPT !.err = EINVAL]
    ELSE
    LET acked == IF HasOpt(pc.opt, RUDP_OPT_ACK)
                 THEN peer_handle_ack(c.p, pc.reliable_ack) ELSE c.p
        an == IF HasOpt(pc.opt, RUDP_OPT_RELIABLE)
              THEN peer_analyse_reliable(acked, pc.reliable)
              ELSE peer_analyse_unreliable(acked, pc.reliable, pc.unreliable)
        sw == incoming_dispatch(
                  [c EXCEPT !.p = [an.p EXCEPT
                                      !.abs_timeout_deadline = t + DROP_TIMEOUT]],
                  an.state, pc, t)
        posted == IF HasOpt(pc.opt, RUDP_OPT_RELIABLE)
                  THEN peer_post_ack(sw.c.p, t) ELSE sw.c.p
    IN  IF sw.done THEN [sw.c EXCEPT !.err = 0]
        ELSE [sw.c EXCEPT !.p = peer_service_schedule(posted, t), !.err = 0]

rudp_peer_incoming_packet(c, pc, t) ==
    IF HasOpt(pc.opt, RUDP_OPT_ACK) /\ peer_handle_ack_broken(c.p, pc.reliable_ack)
    THEN [c EXCEPT !.err = EINVAL]
    ELSE
    LET acked == IF HasOpt(pc.opt, RUDP_OPT_ACK)
                 THEN peer_handle_ack(c.p, pc.reliable_ack) ELSE c.p
        an == IF HasOpt(pc.opt, RUDP_OPT_RELIABLE)
              THEN peer_analyse_reliable(acked, pc.reliable)
              ELSE peer_analyse_unreliable(acked, pc.reliable, pc.unreliable)
        sw == incoming_dispatch([c EXCEPT !.p = an.p], an.state, pc, t)
        posted == IF HasOpt(pc.opt, RUDP_OPT_RELIABLE)
                  THEN peer_post_ack(sw.c.p, t) ELSE sw.c.p
    IN  IF sw.done THEN [sw.c EXCEPT !.err = 0]
        ELSE [sw.c EXCEPT !.p = peer_service_schedule(posted, t), !.err = 0]

(***************************************************************************)
(* peer.c: worker functions                                                *)
(***************************************************************************)
RECURSIVE send_queue_from(_, _, _)
send_queue_from(c, i, t) ==
    IF i > Len(c.p.sendq) THEN c
    ELSE
    LET h == c.p.sendq[i]
        header == IF c.p.must_ack
                  THEN [h EXCEPT !.opt = SetOpt(@, RUDP_OPT_ACK),
                                 !.reliable_ack = c.p.in_seq_reliable]
                  ELSE [h EXCEPT !.reliable_ack = 0]
        sent == peer_send_raw([c EXCEPT !.p.sendq[i] = header], header, t)
    IN  IF HasOpt(header.opt, RUDP_OPT_RELIABLE)
           /\ HasOpt(header.opt, RUDP_OPT_RETRANSMITTED)
        THEN [sent EXCEPT !.p = peer_rto_backoff(@)]
        ELSE IF HasOpt(header.opt, RUDP_OPT_RELIABLE)
        THEN send_queue_from(
                 [sent EXCEPT !.p.sendq[i].opt = SetOpt(@, RUDP_OPT_RETRANSMITTED)],
                 i + 1, t)
        ELSE send_queue_from([sent EXCEPT !.p.sendq = RemoveAt(@, i)], i, t)

\* a worker that walks the queue a second time
peer_send_queue_twice(c, t) == send_queue_from(send_queue_from(c, 1, t), 1, t)

peer_send_queue(c, t) == send_queue_from(c, 1, t)

\* a service that waits one more millisecond before it pings
peer_service_lazy(c, t) ==
    LET p0 == [c.p EXCEPT !.scheduled = FALSE, !.wake = 0]
    IN  IF p0.abs_timeout_deadline < t
        THEN [c EXCEPT !.p = p0, !.dropped = @ + 1]
        ELSE
        LET p1 == IF p0.sendq = <<>> /\ t - p0.last_out_time > ACTION_TIMEOUT + 1
                  THEN peer_ping(p0, t) ELSE p0
            c2 == peer_send_queue([c EXCEPT !.p = p1], t)
        IN  [c2 EXCEPT !.p = peer_service_schedule(@, t)]

peer_service(c, t) ==
    LET p0 == [c.p EXCEPT !.scheduled = FALSE, !.wake = 0]
    IN  IF p0.abs_timeout_deadline < t
        THEN [c EXCEPT !.p = p0, !.dropped = @ + 1]
        ELSE
        LET p1 == IF p0.sendq = <<>> /\ t - p0.last_out_time > ACTION_TIMEOUT
                  THEN peer_ping(p0, t) ELSE p0
            c2 == peer_send_queue([c EXCEPT !.p = p1], t)
        IN  [c2 EXCEPT !.p = peer_service_schedule(@, t)]

(***************************************************************************)
(* client.c: the client shell                                              *)
(***************************************************************************)
Addrs == 1 .. MaxConnect

rudp_client_init ==
    [connected |-> FALSE, peer |-> NoPeer, bound |-> FALSE, addr |-> 0]

\* rudp_peer_from_sockaddr, rudp_peer_send_connect, rudp_endpoint_bind on an
\* ephemeral port (addr)
rudp_client_connect(cl, t, rnd, addr) ==
    [cl EXCEPT !.peer = rudp_peer_send_connect(rudp_peer_init(t, rnd), t),
               !.bound = TRUE,
               !.addr = addr]

\* the engine's part of rudp_client_close: the CLOSE datagram, then deinit
\* a close that goes through the send queue and flushes it
rudp_client_close_queued(cl, t, rnd) ==
    LET close == Packet(RUDP_CMD_CLOSE, HeaderSize, 0)
        queued == rudp_peer_send_unreliable(cl.peer, close, t)
        c == peer_send_queue(Ctx(queued), t)
    IN  [cl |-> [cl EXCEPT !.peer = rudp_peer_deinit(c.p, t, rnd),
                           !.bound = FALSE],
         tx |-> c.tx]

rudp_client_close(cl, t, rnd) ==
    LET c == rudp_peer_send_close_noqueue(Ctx(cl.peer), t)
    IN  [cl |-> [cl EXCEPT !.peer = rudp_peer_deinit(c.p, t, rnd),
                           !.bound = FALSE],
         tx |-> c.tx]

client_peer_dropped(cl, t, rnd) ==
    [cl EXCEPT !.connected = FALSE,
               !.peer = rudp_peer_deinit(@, t, rnd),
               !.bound = FALSE]

\* return value of rudp_client_send
rudp_client_send_ret(cl, command) ==
    IF command + RUDP_CMD_APP > 255 THEN EINVAL
    ELSE IF ~cl.connected THEN EINVAL
    ELSE cl.peer.sendto_err

rudp_client_send(cl, reliable, command, data, t) ==
    IF command + RUDP_CMD_APP > 255 \/ ~cl.connected THEN cl
    ELSE LET pc == Packet(RUDP_CMD_APP + command, HeaderSize + 1, data)
         IN  [cl EXCEPT !.peer = IF reliable
                                 THEN rudp_peer_send_reliable(@, pc, t)
                                 ELSE rudp_peer_send_unreliable(@, pc, t)]

(***************************************************************************)
(* server.c: the peer list, keyed by remote address; items counts the      *)
(* entries the list holds for each address (rudp_list_insert,              *)
(* rudp_list_remove)                                                        *)
(***************************************************************************)
rudp_server_init ==
    [peer_list |-> [a \in {} |-> NoPeer], bound |-> FALSE,
     items |-> [a \in Addrs |-> 0]]

rudp_server_bind(sv) == [sv EXCEPT !.bound = TRUE]

\* a lookup that finds nobody
rudp_server_peer_lookup_none(sv, addr) == FALSE

rudp_server_peer_lookup(sv, addr) == addr \in DOMAIN sv.peer_list

server_peer_new(sv, addr, t, rnd) ==
    [sv EXCEPT !.peer_list =
                   [a \in DOMAIN @ \cup {addr} |->
                       IF a = addr THEN rudp_peer_init(t, rnd) ELSE @[a]],
               !.items[addr] = @ + 1]

server_peer_forget(sv, addr) ==
    [sv EXCEPT !.peer_list = [a \in DOMAIN @ \ {addr} |-> @[a]],
               !.items[addr] = @ - 1]

\* the peer is forgotten; no datagram is sent
rudp_server_client_close(sv, addr) == server_peer_forget(sv, addr)

rudp_server_send(sv, addr, reliable, command, data, t) ==
    IF command + RUDP_CMD_APP > 255 THEN sv
    ELSE LET pc == Packet(RUDP_CMD_APP + command, HeaderSize + 1, data)
         IN  [sv EXCEPT !.peer_list[addr] =
                 IF reliable THEN rudp_peer_send_reliable(@, pc, t)
                 ELSE rudp_peer_send_unreliable(@, pc, t)]

(***************************************************************************)
(* The network: a set of datagrams in flight.  to = "S": sent by the       *)
(* client bound to addr; to = "C": sent by the server to addr.             *)
(***************************************************************************)
Dgram(to, addr, pkt) == [to |-> to, addr |-> addr, pkt |-> pkt]

RECURSIVE net_add(_, _, _, _)
net_add(n, to, addr, tx) ==
    IF tx = <<>> THEN n
    ELSE net_add(IF Cardinality(n) < MaxNet
                 THEN n \cup {Dgram(to, addr, Head(tx))} ELSE n,
                 to, addr, Tail(tx))

\* TRUE when a datagram of tx does not fit
net_spills(n, to, addr, tx) ==
    Cardinality(n \cup {Dgram(to, addr, tx[i]) : i \in 1 .. Len(tx)})
        # Cardinality(net_add(n, to, addr, tx))

\* datagrams addressed to a closed socket are discarded by the host
net_purge(n, cl) == {d \in n : d.to = "S" \/ (cl.bound /\ d.addr = cl.addr)}

\* what handle_packet receives, as the application sees it
Seen(pc) ==
    [command |-> pc.command, rel |-> HasOpt(pc.opt, RUDP_OPT_RELIABLE),
     reliable |-> pc.reliable, unreliable |-> pc.unreliable, data |-> pc.data]

RECURSIVE SeenAll(_)
SeenAll(up) == IF up = <<>> THEN <<>> ELSE <<Seen(Head(up))>> \o SeenAll(Tail(up))

(***************************************************************************)
(* Initial state: rudp_client_init, rudp_server_init + rudp_server_bind    *)
(***************************************************************************)
NoPacket == Packet(0 - 1, 0, 0)

\* what the last handler was given and what it did: its input packet, the
\* datagrams it transmitted, the packets it passed to handle_packet, the
\* number of dropped notifications and its return value; for a service, the
\* deliveries that were waiting for it; the state and the length of the send
\* queue the engine left, before the shell acted on a dropped notification;
\* the accesses to the peer after that notification, and whether one of them,
\* made to a structure already freed, ended the process
Ev(h, addr, pc, c) ==
    [h |-> h, addr |-> addr, pkt |-> pc, tx |-> c.tx, up |-> SeenAll(c.up),
     dropped |-> c.dropped, err |-> c.err, waited |-> 0,
     state |-> c.p.state, queued |-> Len(c.p.sendq),
     late |-> c.late, fault |-> FALSE]

Quiet(h) == Ev(h, 0, NoPacket, Ctx(NoPeer))

\* Deliveries of the latest reliable application datagram that an engine in
\* RUN has taken since its service timer last ran: n before the handler, p the
\* peer before it, c what rudp_peer_incoming_packet made of pc.  cowe and
\* sowe tell whether the engine has taken a reliable packet that it must
\* acknowledge since its service timer last ran.
Waiting(n, p, pc, c) ==
    LET mine == /\ p.state = PEER_RUN
                /\ c.err = 0
                /\ pc.command >= RUDP_CMD_APP
                /\ HasOpt(pc.opt, RUDP_OPT_RELIABLE)
                /\ pc.reliable = c.p.in_seq_reliable
    IN  IF c.p.in_seq_reliable # p.in_seq_reliable
        THEN (IF mine THEN 1 ELSE 0)
        ELSE IF mine THEN n + 1 ELSE n

\* The engine p owes an acknowledgement after rudp_peer_incoming_packet made
\* c of pc: pc is reliable, was classified SEQUENCED or RETRANSMITTED, and
\* the call reached peer_post_ack.  b tells whether one was owed before.
Owes(b, p, pc, c) ==
    \/ b
    \/ /\ c.err = 0
       /\ c.dropped = 0
       /\ HasOpt(pc.opt, RUDP_OPT_RELIABLE)
       /\ peer_analyse_reliable(p, pc.reliable).state \in {SEQUENCED, RETRANSMITTED}

Init ==
    /\ now = 0
    /\ client = rudp_client_init
    /\ server = rudp_server_bind(rudp_server_init)
    /\ net = {}
    /\ app = [connects |-> 0, csent |-> 0, ssent |-> 0, lost |-> 0,
              dups |-> 0, forged |-> 0, spill |-> FALSE]
    /\ obs = [connected |-> [a \in Addrs |-> 0],
              server_lost |-> [a \in Addrs |-> 0],
              cup |-> <<>>,
              peer_new |-> [a \in Addrs |-> 0],
              peer_dropped |-> [a \in Addrs |-> 0],
              sup |-> [a \in Addrs |-> <<>>],
              conn_req |-> [a \in Addrs |-> 0],
              cwait |-> 0,
              swait |-> [a \in Addrs |-> 0],
              cowe |-> FALSE,
              sowe |-> [a \in Addrs |-> FALSE],
              cerr |-> 0]
    /\ ev = Quiet("init")

(***************************************************************************)
(* Client handlers.  A world w = [cl, net, app, obs] is threaded through   *)
(* the steps of one handler.                                               *)
(***************************************************************************)
World == [cl |-> client, net |-> net, app |-> app, obs |-> obs]

\* client_peer_dropped, then the application's server_lost handler, which
\* may call rudp_client_connect at once (as the test client does)
client_dropped(w, t, rnd, again, rnd2) ==
    LET cl1 == client_peer_dropped(w.cl, t, rnd)
        w1 == [w EXCEPT !.cl = cl1,
                        !.net = net_purge(@, cl1),
                        !.obs.server_lost[w.cl.addr] = @ + 1]
    IN  IF again
        THEN [w1 EXCEPT !.cl = rudp_client_connect(@, t, rnd2, w1.app.connects + 1),
                        !.app.connects = @ + 1,
                        !.obs.cup = <<>>,
                        !.obs.cwait = 0,
                        !.obs.cowe = FALSE,
                        !.obs.cerr = 0,
                        !.obs.conn_req[w1.app.connects + 1] = U16(rnd2 + 1)]
        ELSE w1

\* rudp_endpoint_send fails for a peer whose address has been released
client_transmit(w, tx) ==
    IF w.cl.bound
    THEN [w EXCEPT !.net = net_add(@, "S", w.cl.addr, tx),
                   !.app.spill = @ \/ net_spills(w.net, "S", w.cl.addr, tx)]
    ELSE IF tx = <<>> THEN w
    ELSE [w EXCEPT !.cl.peer.sendto_err = EDESTADDRREQ]

client_handle_endpoint_packet(w, pc, t, rnd, again, rnd2) ==
    LET connected(c, w2) ==
            IF c.err = 0 /\ ~w2.cl.connected
            THEN [w2 EXCEPT !.cl.connected = TRUE,
                            !.obs.connected[w2.app.connects] = @ + 1]
            ELSE w2
        dropped(c, w1) ==
            connected(c, IF c.dropped > 0
                         THEN client_dropped(w1, t, rnd, again, rnd2)
                         ELSE w1)
        taken(c) ==
            dropped(c, [w EXCEPT !.cl.peer = c.p,
                                 !.obs.cup = @ \o SeenAll(c.up),
                                 !.obs.cwait = Waiting(@, w.cl.peer, pc, c),
                                 !.obs.cowe = Owes(@, w.cl.peer, pc, c)])
    IN  taken(rudp_peer_incoming_packet(Ctx(w.cl.peer), pc, t))

client_service(w, t, rnd, again, rnd2) ==
    LET c == peer_service(Ctx(w.cl.peer), t)
        w1 == client_transmit([w EXCEPT !.cl.peer = c.p,
                                        !.obs.cwait = 0,
                                        !.obs.cowe = FALSE], c.tx)
    IN  IF c.dropped > 0 THEN client_dropped(w1, t, rnd, again, rnd2) ELSE w1

\* the choices a handler makes only on some paths
RandomIf(b) == IF b THEN RandomSeqs ELSE {0}

ChoiceIf(b) == IF b THEN BOOLEAN ELSE {FALSE}

\* datagrams addressed to the server's socket once it is closed are discarded
Commit(w) ==
    \E x \in {w} :
       /\ client' = x.cl
       /\ net' = {d \in x.net : d.to = "S" => server.bound}
       /\ app' = x.app
       /\ obs' = x.obs

\* the endpoint hands a datagram to the client
ClientDeliver(w, pc, maxc) ==
    \E c \in {rudp_peer_incoming_packet(Ctx(client.peer), pc, now)} :
       \E rnd \in RandomIf(c.dropped > 0),
          again \in ChoiceIf(c.dropped > 0 /\ app.connects < maxc) :
          \E rnd2 \in RandomIf(again) :
             /\ Commit(client_handle_endpoint_packet(w, pc, now, rnd, again, rnd2))
             /\ ev' = Ev("client_recv", client.addr, pc, c)
             /\ UNCHANGED <<now, server>>

ClientConnect(maxc) ==
    /\ ~client.peer.source
    /\ app.connects < maxc
    /\ \E rnd \in RandomSeqs :
          /\ client' = rudp_client_connect(client, now, rnd, app.connects + 1)
          /\ obs' = [obs EXCEPT !.cup = <<>>,
                                !.cwait = 0,
                                !.cowe = FALSE,
                                !.cerr = 0,
                                !.conn_req[app.connects + 1] = U16(rnd + 1)]
    /\ app' = [app EXCEPT !.connects = @ + 1]
    /\ ev' = Quiet("connect")
    /\ UNCHANGED <<now, server, net>>

ClientClose ==
    /\ client.peer.source
    /\ \E rnd \in RandomSeqs :
          LET r == rudp_client_close(client, now, rnd)
              w == client_transmit(World, r.tx)
          IN  /\ Commit([w EXCEPT !.cl = r.cl, !.net = net_purge(@, r.cl)])
              /\ ev' = [Quiet("close") EXCEPT !.tx = r.tx,
                                              !.state = client.peer.state,
                                              !.queued = Len(client.peer.sendq)]
    /\ UNCHANGED <<now, server>>

ClientSend(maxs) ==
    /\ client.peer.source
    /\ app.csent < maxs
    /\ \E reliable \in BOOLEAN :
          /\ rudp_client_send_ret(client, 0) = 0
          /\ client' = rudp_client_send(client, reliable, 0, app.csent + 1, now)
    /\ app' = [app EXCEPT !.csent = @ + 1]
    /\ ev' = Quiet("client_send")
    /\ UNCHANGED <<now, server, net, obs>>

\* rudp_client_send on a peer that rudp_client_close or client_peer_dropped
\* has destroyed, accepted because the connected flag is set: the packet is
\* queued and peer_service_schedule hands the released event source to
\* ela_set_timeout and ela_add, so the timer may or may not have been armed
ClientSendClosed(maxs) ==
    /\ ~client.peer.source
    /\ app.csent < maxs
    /\ rudp_client_send_ret(client, 0) = 0
    /\ \E reliable \in BOOLEAN, armed \in BOOLEAN :
          LET cl == rudp_client_send(client, reliable, 0, app.csent + 1, now)
          IN  client' = IF armed THEN cl
                        ELSE [cl EXCEPT !.peer.scheduled = FALSE, !.peer.wake = 0]
    /\ app' = [app EXCEPT !.csent = @ + 1]
    /\ ev' = Quiet("client_send")
    /\ UNCHANGED <<now, server, net, obs>>

ClientSendRefused(maxs) ==
    /\ client.peer.source
    /\ app.csent < maxs
    /\ rudp_client_send_ret(client, 0) # 0
    /\ client' = rudp_client_send(client, TRUE, 0, app.csent + 1, now)
    /\ ev' = [Quiet("client_send") EXCEPT !.err = rudp_client_send_ret(client, 0)]
    /\ UNCHANGED <<now, server, net, app, obs>>

ClientRecv(maxc) ==
    /\ client.bound
    /\ \E d \in net :
          /\ d.to = "C"
          /\ d.addr = client.addr
          /\ ClientDeliver([World EXCEPT !.net = @ \ {d}], d.pkt, maxc)

ClientService(maxc) ==
    /\ client.peer.scheduled
    /\ client.peer.wake <= now
    /\ LET c == peer_service(Ctx(client.peer), now)
       IN  \E rnd \in RandomIf(c.dropped > 0),
              again \in ChoiceIf(c.dropped > 0 /\ app.connects < maxc) :
             \E rnd2 \in RandomIf(again) :
                /\ Commit(client_service(World, now, rnd, again, rnd2))
                /\ ev' = [Ev("client_service", client.addr, NoPacket, c)
                              EXCEPT !.waited = obs.cwait]
    /\ UNCHANGED <<now, server>>

(***************************************************************************)
(* Server handlers.  A world v = [sv, net, app, obs].                      *)
(***************************************************************************)
SWorld == [sv |-> server, net |-> net, app |-> app, obs |-> obs]

\* deliverable datagrams only: the client socket for addr must be open
server_transmit(v, addr, tx) ==
    IF client.bound /\ client.addr = addr
    THEN [v EXCEPT !.net = net_add(@, "C", addr, tx),
                   !.app.spill = @ \/ net_spills(v.net, "C", addr, tx)]
    ELSE v

\* a dropped handler that tells the application and keeps the peer
server_peer_dropped_keep(v, addr) ==
    [v EXCEPT !.obs.peer_dropped[addr] = @ + 1]

\* server_peer_dropped: the application's peer_dropped, then forget
server_peer_dropped(v, addr) ==
    [v EXCEPT !.obs.peer_dropped[addr] = @ + 1,
              !.sv = server_peer_forget(@, addr)]

server_handle_endpoint_packet(v, addr, pc, len, t, rnd) ==
    IF rudp_server_peer_lookup(v.sv, addr)
    THEN LET dropped(c, v1) ==
                 IF c.dropped > 0 THEN server_peer_dropped(v1, addr) ELSE v1
             taken(c) ==
                 dropped(c, [v EXCEPT !.sv.peer_list[addr] = c.p,
                                      !.obs.sup[addr] = @ \o SeenAll(c.up),
                                      !.obs.swait[addr] =
                                          Waiting(@, v.sv.peer_list[addr], pc, c),
                                      !.obs.sowe[addr] =
                                          Owes(@, v.sv.peer_list[addr], pc, c)])
         IN  taken(rudp_peer_incoming_packet(Ctx(v.sv.peer_list[addr]), pc, t))
    ELSE IF len # ConnReqSize \/ pc.command # RUDP_CMD_CONN_REQ
    THEN v
    ELSE LET accepted(c, v1) ==
                 IF c.err = 0
                 THEN [v1 EXCEPT !.obs.peer_new[addr] = @ + 1]
                 ELSE [v1 EXCEPT !.sv = server_peer_forget(@, addr)]
             taken(sv1, c) ==
                 accepted(c, [v EXCEPT !.sv = [sv1 EXCEPT !.peer_list[addr] = c.p],
                                       !.obs.sup[addr] = SeenAll(c.up),
                                       !.obs.swait[addr] = 0,
                                       !.obs.sowe[addr] =
                                           Owes(FALSE, sv1.peer_list[addr], pc, c)])
             created(sv1) ==
                 taken(sv1, rudp_peer_incoming_packet(Ctx(sv1.peer_list[addr]),
                                                       pc, t))
         IN  created(server_peer_new(v.sv, addr, t, rnd))

\* the engine's part of server_handle_endpoint_packet, for the record in ev
server_incoming(sv, addr, pc, len, t, rnd) ==
    IF rudp_server_peer_lookup(sv, addr)
    THEN rudp_peer_incoming_packet(Ctx(sv.peer_list[addr]), pc, t)
    ELSE IF len # ConnReqSize \/ pc.command # RUDP_CMD_CONN_REQ
    THEN [Ctx(NoPeer) EXCEPT !.err = EINVAL]
    ELSE rudp_peer_incoming_packet(Ctx(rudp_peer_init(t, rnd)), pc, t)

server_service(v, addr, t) ==
    LET c == peer_service(Ctx(v.sv.peer_list[addr]), t)
        v1 == server_transmit([v EXCEPT !.sv.peer_list[addr] = c.p,
                                        !.obs.swait[addr] = 0,
                                        !.obs.sowe[addr] = FALSE], addr, c.tx)
    IN  IF c.dropped > 0 THEN server_peer_dropped(v1, addr) ELSE v1

SCommit(v) ==
    \E x \in {v} :
       /\ server' = x.sv
       /\ net' = x.net
       /\ app' = x.app
       /\ obs' = x.obs

\* the server's process ends on a memory fault: its socket is closed with it
Fault(v, fault) ==
    [v EXCEPT !.sv = IF fault THEN [rudp_server_init EXCEPT !.bound = FALSE]
                     ELSE @,
              !.net = IF fault THEN {d \in @ : d.to # "S"} ELSE @]

\* the endpoint hands a datagram of len bytes from addr to the server.  Where
\* the engine reads the peer after server_peer_dropped has freed it, the
\* read returns what the structure held and the call goes on, or it returns
\* something else and the process ends in the logger that is given it.
ServerDeliver(v, addr, pc, len) ==
    /\ server.bound
    /\ \E rnd \in RandomIf(~rudp_server_peer_lookup(server, addr)
                         /\ len = ConnReqSize
                         /\ pc.command = RUDP_CMD_CONN_REQ) :
       \E c \in {server_incoming(server, addr, pc, len, now, rnd)} :
          \E fault \in ChoiceIf(c.dropped > 0 /\ c.late > 0) :
             /\ SCommit(Fault(server_handle_endpoint_packet(v, addr, pc, len,
                                                            now, rnd), fault))
             /\ ev' = [Ev("server_recv", addr, pc, c) EXCEPT !.fault = fault]
             /\ UNCHANGED <<now, client>>

ServerRecv ==
    \E d \in net :
       /\ d.to = "S"
       /\ ServerDeliver([SWorld EXCEPT !.net = @ \ {d}], d.addr, d.pkt, d.pkt.len)

ServerService ==
    /\ \E a \in DOMAIN server.peer_list :
          /\ server.peer_list[a].scheduled
          /\ server.peer_list[a].wake <= now
          /\ SCommit(server_service(SWorld, a, now))
          /\ ev' = [Ev("server_service", a, NoPacket,
                       peer_service(Ctx(server.peer_list[a]), now))
                    EXCEPT !.waited = obs.swait[a]]
    /\ UNCHANGED <<now, client>>

\* rudp_server_close: peer_dropped and rudp_server_client_close for every
\* peer, then the endpoint is closed
server_close(v) ==
    [v EXCEPT !.obs.peer_dropped =
                  [a \in Addrs |-> IF a \in DOMAIN v.sv.peer_list
                                   THEN @[a] + 1 ELSE @[a]],
              !.sv = [rudp_server_init EXCEPT !.bound = FALSE],
              !.net = {d \in @ : d.to # "S"}]

ServerClientClose ==
    /\ \E a \in DOMAIN server.peer_list :
          /\ server' = rudp_server_client_close(server, a)
          /\ ev' = [Quiet("server_client_close") EXCEPT !.addr = a]
    /\ UNCHANGED <<now, client, net, app, obs>>

ServerClose ==
    /\ server.bound
    /\ SCommit(server_close(SWorld))
    /\ ev' = [Quiet("server_close") EXCEPT
                 !.dropped = Cardinality(DOMAIN server.peer_list)]
    /\ UNCHANGED <<now, client>>

ServerSend(maxs) ==
    /\ app.ssent < maxs
    /\ \E a \in DOMAIN server.peer_list, reliable \in BOOLEAN :
          /\ server' = rudp_server_send(server, a, reliable, 0, app.ssent + 1, now)
          /\ ev' = [Quiet("server_send") EXCEPT !.addr = a]
    /\ app' = [app EXCEPT !.ssent = @ + 1]
    /\ UNCHANGED <<now, client, net, obs>>

(***************************************************************************)
(* The network and the clock                                               *)
(***************************************************************************)
\* a datagram is delivered and stays in flight: duplication
ClientRecvDup(maxc) ==
    /\ client.bound
    /\ app.dups < MaxDup
    /\ \E d \in net :
          /\ d.to = "C"
          /\ d.addr = client.addr
          /\ ClientDeliver([World EXCEPT !.app.dups = @ + 1], d.pkt, maxc)

ServerRecvDup ==
    /\ app.dups < MaxDup
    /\ \E d \in net :
          /\ d.to = "S"
          /\ ServerDeliver([SWorld EXCEPT !.app.dups = @ + 1],
                           d.addr, d.pkt, d.pkt.len)

Lose ==
    /\ app.lost < MaxLoss
    /\ \E d \in net :
          /\ net' = net \ {d}
          /\ ev' = [Quiet("lose") EXCEPT !.addr = d.addr, !.pkt = d.pkt]
    /\ app' = [app EXCEPT !.lost = @ + 1]
    /\ UNCHANGED <<now, client, server, obs>>

\* the programmed times of the pending service timers
Wakes ==
    (IF client.peer.scheduled THEN {client.peer.wake} ELSE {})
    \cup {server.peer_list[a].wake :
             a \in {b \in DOMAIN server.peer_list : server.peer_list[b].scheduled}}

Min(S) == CHOOSE x \in S : \A y \in S : x <= y

\* Time passes up to the next timer; a due timer fires before time moves on.
\* Transit is shorter than the timer granularity: what is in flight is
\* delivered, duplicated or lost before the clock advances.
Tick(maxt) ==
    /\ net = {}
    /\ Wakes # {}
    /\ \A wk \in Wakes : wk > now
    /\ Min(Wakes) <= maxt
    /\ now' = Min(Wakes)
    /\ ev' = Quiet("tick")
    /\ UNCHANGED <<client, server, net, app, obs>>

\* Headers a datagram from anywhere may carry, placed around the counters of
\* the peer p they are given to: every command, every combination of the
\* RELIABLE and ACK flags, sequences at, next to and beyond what p expects,
\* the acknowledgement just before out_seq_acked and the one half the
\* sequence space away from it.
Arbitrary(p, t) ==
    {[command |-> cmd, opt |-> opt, reliable_ack |-> ack, reliable |-> rel,
      unreliable |-> unrel, len |-> len, data |-> IF cmd = RUDP_CMD_CONN_RSP
                                                  THEN 1 ELSE t] :
        cmd \in {RUDP_CMD_NOOP, RUDP_CMD_CLOSE, RUDP_CMD_CONN_REQ,
                 RUDP_CMD_CONN_RSP, RUDP_CMD_PING, RUDP_CMD_PONG,
                 RUDP_CMD_APP - 1, RUDP_CMD_APP},
        opt \in {0, RUDP_OPT_RELIABLE, RUDP_OPT_ACK,
                 RUDP_OPT_RELIABLE + RUDP_OPT_ACK},
        ack \in {p.out_seq_acked, p.out_seq_reliable, U16(p.out_seq_reliable + 1),
                 U16(p.out_seq_acked + 32768), U16(p.out_seq_acked - 1)},
        rel \in {p.in_seq_reliable, U16(p.in_seq_reliable + 1),
                 U16(p.in_seq_reliable + 2)},
        unrel \in {p.in_seq_unreliable, U16(p.in_seq_unreliable + 1)},
        len \in {HeaderSize, ConnReqSize}}

\* a datagram of arbitrary content reaches the client's socket
ClientForged(maxc) ==
    /\ client.bound
    /\ app.forged < MaxForged
    /\ \E pc \in Arbitrary(client.peer, now) :
          ClientDeliver([World EXCEPT !.app.forged = @ + 1], pc, maxc)

\* a datagram of arbitrary content reaches the server's socket
ServerForged ==
    /\ app.forged < MaxForged
    /\ \E a \in Addrs :
          \E pc \in Arbitrary(IF rudp_server_peer_lookup(server, a)
                              THEN server.peer_list[a]
                              ELSE rudp_peer_init(now, 0), now) :
             ServerDeliver([SWorld EXCEPT !.app.forged = @ + 1], a, pc, pc.len)

(***************************************************************************)
(* Spec: one connection carrying application data over a network that      *)
(* loses and duplicates datagrams                                          *)
(***************************************************************************)
Next ==
    \/ ClientConnect(DataConnects)
    \/ ClientSend(MaxSend)
    \/ ClientSendRefused(MaxSend)
    \/ ClientRecv(DataConnects)
    \/ ClientService(DataConnects)
    \/ ServerRecv
    \/ ServerService
    \/ ServerSend(MaxReply)
    \/ ClientRecvDup(DataConnects)
    \/ ServerRecvDup
    \/ Lose
    \/ Tick(MaxTime)

Spec == Init /\ [][Next]_vars

(***************************************************************************)
(* Properties of Spec                                                      *)
(***************************************************************************)
\* the peer that takes the datagram of this step, before the step
Receiver ==
    IF ev'.h = "client_recv" THEN client.peer
    ELSE IF ev'.addr \in DOMAIN server.peer_list THEN server.peer_list[ev'.addr]
    ELSE NoPeer

\* the same peer after the step
ReceiverAfter ==
    IF ev'.h = "client_recv" THEN client'.peer
    ELSE IF ev'.addr \in DOMAIN server'.peer_list THEN server'.peer_list[ev'.addr]
    ELSE NoPeer

Received == ev'.h \in {"client_recv", "server_recv"}

ReliableApp(pc) ==
    pc.command >= RUDP_CMD_APP /\ HasOpt(pc.opt, RUDP_OPT_RELIABLE)

\* reliable packets of a handle_packet log come in strictly increasing
\* sequence (16-bit modular) and none comes twice
InOrder(log) ==
    \A i, j \in 1 .. Len(log) :
       (i < j /\ log[i].rel /\ log[j].rel)
          => /\ S16(log[j].reliable - log[i].reliable) > 0
             /\ log[i].data # log[j].data

C1_Step ==
    /\ InOrder(obs'.cup)
    /\ \A a \in Addrs : InOrder(obs'.sup[a])
    /\ (/\ Received
        /\ Receiver.state = PEER_RUN
        /\ Receiver.in_seq_reliable = 65535
        /\ ReliableApp(ev'.pkt)
        /\ ev'.pkt.reliable = 0
        /\ ev'.err = 0)
          => /\ ev'.up = <<Seen(ev'.pkt)>>
             /\ ReceiverAfter.in_seq_reliable = 0

\* C1: between two peers in RUN, whatever the applications enqueue and
\* whatever the network loses, duplicates or reorders, each engine hands
\* reliable application packets to handle_packet in strictly increasing
\* reliable sequence (16-bit modular), each at most once; a receiver whose
\* in_seq_reliable is 0xFFFF takes reliable sequence 0x0000 as the next one.
C1_InOrderOnce == [][C1_Step]_vars

\* a server peer has delivered reliable sequence 0xFFFF and then 0x0000
C1_WrapDelivered ==
    \E a \in Addrs :
       \E i, j \in 1 .. Len(obs.sup[a]) :
          /\ i < j
          /\ obs.sup[a][i].rel /\ obs.sup[a][i].reliable = 65535
          /\ obs.sup[a][j].rel /\ obs.sup[a][j].reliable = 0

C3_Step ==
    /\ (/\ ev'.h = "server_recv"
        /\ ev'.pkt.command = RUDP_CMD_CONN_REQ
        /\ ev'.addr \notin DOMAIN server.peer_list)
          => /\ ev'.addr \in DOMAIN server'.peer_list
             /\ ReceiverAfter.state = PEER_RUN
             /\ ReceiverAfter.in_seq_reliable = ev'.pkt.reliable
    /\ ev'.h = "server_service"
          => \A i \in 1 .. Len(ev'.tx) :
                ev'.tx[i].command = RUDP_CMD_CONN_RSP
                   => /\ ev'.tx[i].opt = RUDP_OPT_ACK
                      /\ ev'.tx[i].unreliable = 1
                      /\ ev'.tx[i].data = 1
                      /\ ev'.tx[i].reliable_ack = obs.conn_req[ev'.addr]
    /\ (/\ ev'.h = "client_recv"
        /\ ev'.pkt.command = RUDP_CMD_CONN_RSP
        /\ client.peer.state = PEER_CONNECTING)
          => /\ client'.peer.state = PEER_RUN
             /\ client'.peer.in_seq_reliable = ev'.pkt.reliable

\* C3: for every pair of initial sequence numbers and with no datagram lost,
\* the handshake completes: the CONN_REQ from an unknown address creates a
\* server peer in RUN whose in_seq_reliable is the CONN_REQ's sequence, the
\* CONN_RSP it transmits is unreliable with unreliable sequence 1, accepted 1
\* and an ACK of the CONN_REQ's sequence, and the client that receives it in
\* CONNECTING enters RUN with in_seq_reliable set to the server's sequence.
C3_HandshakeCompletes ==
    [][(app'.lost = 0 /\ app'.dups = 0 /\ ~app'.spill) => C3_Step]_vars

\* C4: the server calls peer_new for a peer only when that peer's engine is
\* in RUN at the time of the call.
C4_PeerNewOnlyInRun ==
    [][\A a \in Addrs :
          obs'.peer_new[a] > obs.peer_new[a]
             => /\ a \in DOMAIN server'.peer_list
                /\ server'.peer_list[a].state = PEER_RUN]_vars

\* C5: the client calls connected only as the result of its engine moving
\* from CONNECTING to RUN; no other received datagram makes it call connected.
C5_ConnectedOnlyInRun ==
    [][\A a \in Addrs :
          obs'.connected[a] > obs.connected[a]
             => /\ client.peer.state = PEER_CONNECTING
                /\ client'.peer.state = PEER_RUN]_vars

\* datagrams of tx that carry an ACK of sequence seq
Acks(tx, seq) ==
    Cardinality({i \in 1 .. Len(tx) :
                    HasOpt(tx[i].opt, RUDP_OPT_ACK) /\ tx[i].reliable_ack = seq})

\* the engine whose service timer ran in the last step
Serviced ==
    IF ev.h = "client_service" THEN client.peer
    ELSE IF ev.addr \in DOMAIN server.peer_list THEN server.peer_list[ev.addr]
    ELSE NoPeer

\* a reliable application datagram reaches an engine in RUN: at most one
\* handle_packet, for the datagram that is next in sequence only, and an ACK
\* is owed with a datagram queued to carry it
C10_Delivery ==
    (/\ Received
     /\ Receiver.state = PEER_RUN
     /\ ReliableApp(ev'.pkt)
     /\ ev'.err = 0
     /\ ev'.pkt.reliable \in {Receiver.in_seq_reliable,
                              U16(Receiver.in_seq_reliable + 1)})
       => /\ ev'.up = IF ev'.pkt.reliable = Receiver.in_seq_reliable
                      THEN <<>> ELSE <<Seen(ev'.pkt)>>
          /\ ReceiverAfter.must_ack
          /\ ReceiverAfter.sendq # <<>>

\* C10 as stated: the same reliable application datagram delivered twice to
\* an engine in RUN yields one handle_packet and two transmitted datagrams
\* carrying an ACK of its sequence, in every interleaving with the service
\* timer: a service transmits an ACK datagram for each delivery it follows.
C10_TwoAcks ==
    [][/\ C10_Delivery
       /\ (ev'.h \in {"client_service", "server_service"} /\ ev'.dropped = 0)
             => Acks(ev'.tx, Serviced'.in_seq_reliable) >= ev'.waited]_vars

\* C10, amended: the same reliable application datagram delivered twice to an
\* engine in RUN yields one handle_packet; every delivery leaves an ACK owed
\* and a datagram queued, and every service that follows one or more
\* deliveries transmits at least one datagram carrying an ACK of the sequence:
\* two when the service timer runs between the deliveries, one when it runs
\* after both.
C10_AckPerService ==
    [][/\ C10_Delivery
       /\ (/\ ev'.h \in {"client_service", "server_service"}
           /\ ev'.dropped = 0
           /\ ev'.waited >= 1)
             => Acks(ev'.tx, Serviced'.in_seq_reliable) >= 1]_vars

\* a service has answered two deliveries of a datagram with a single ACK
C10_OneAckForTwo ==
    /\ ev.h \in {"client_service", "server_service"}
    /\ ev.dropped = 0
    /\ ev.waited = 2
    /\ Acks(ev.tx, Serviced.in_seq_reliable) = 1

(***************************************************************************)
(* SpecLife: connections that are opened, closed, lost and opened again    *)
(***************************************************************************)
NextLife ==
    \/ ClientConnect(MaxConnect)
    \/ ClientClose
    \/ ClientSend(LifeSend)
    \/ ClientSendRefused(LifeSend)
    \/ ClientRecv(MaxConnect)
    \/ ClientService(MaxConnect)
    \/ ServerRecv
    \/ ServerService
    \/ Tick(LifeTime)

SpecLife == Init /\ [][NextLife]_vars

\* C6: for every rudp_client_connect whose handshake completes, the first one
\* and one that follows rudp_client_close or server_lost alike, the connected
\* handler has been called exactly once for that connection.
C6_ConnectedOnce ==
    /\ \A a \in Addrs : obs.connected[a] <= 1
    /\ (client.peer.source /\ client.peer.state = PEER_RUN)
          => obs.connected[app.connects] = 1

\* C8: rudp_client_send returns an error and queues nothing whenever connected
\* has not been signalled for the current connection, before the first
\* handshake completes and after rudp_client_close and a new connect alike.
C8_SendRefused ==
    [][(ev'.h = "client_send" /\ obs.connected[app.connects] = 0)
          => (ev'.err # 0 /\ client'.peer.sendq = client.peer.sendq)]_vars

(***************************************************************************)
(* SpecOpen: one client and the server on a network that also brings       *)
(* datagrams neither of them sent                                          *)
(***************************************************************************)
NextOpen ==
    \/ ClientConnect(MaxConnect)
    \/ ClientSend(OpenSend)
    \/ ClientRecv(MaxConnect)
    \/ ClientService(MaxConnect)
    \/ ServerRecv
    \/ ServerService
    \/ ClientForged(MaxConnect)
    \/ ServerForged
    \/ Tick(MaxTime)

SpecOpen == Init /\ [][NextOpen]_vars

\* C7: once the engine has reported dropped to the client, for a remote CLOSE
\* or a timeout, and the handler has returned, server_lost has been called
\* exactly once and the client is not connected: the connected flag is clear
\* and rudp_client_send is refused until a new connect completes; unless
\* server_lost itself connected again, the endpoint is closed, the send queue
\* is empty and no service timer is pending.
C7_DroppedLeavesDisconnected ==
    [][(ev'.h \in {"client_recv", "client_service"} /\ ev'.dropped > 0)
          => /\ obs'.server_lost[client.addr] = obs.server_lost[client.addr] + 1
             /\ \A a \in Addrs \ {client.addr} :
                   obs'.server_lost[a] = obs.server_lost[a]
             /\ ~client'.connected
             /\ rudp_client_send_ret(client', 0) # 0
             /\ app'.connects = app.connects
                   => /\ ~client'.bound
                      /\ client'.peer.sendq = <<>>
                      /\ ~client'.peer.scheduled]_vars

\* C9: a peer in CONNECTING moves to RUN only on a CONN_RSP that carries the
\* ACK flag with reliable_ack equal to the sequence of its own CONN_REQ; any
\* other datagram, a CONN_RSP without ACK or with another ACK too, leaves it
\* in CONNECTING.
C9_RunOnlyOnAckedConnRsp ==
    [][(/\ ev'.h = "client_recv"
        /\ client.peer.state = PEER_CONNECTING
        /\ app'.connects = app.connects
        /\ client'.peer.state = PEER_RUN)
          => /\ ev'.pkt.command = RUDP_CMD_CONN_RSP
             /\ HasOpt(ev'.pkt.opt, RUDP_OPT_ACK)
             /\ ev'.pkt.reliable_ack = obs.conn_req[app.connects]]_vars

\* the ACK of pc is ahead of the last reliable sequence p has sent
AckAhead(p, pc) ==
    /\ HasOpt(pc.opt, RUDP_OPT_ACK)
    /\ S16(pc.reliable_ack - p.out_seq_reliable) > 0

\* the ACK of pc is behind the sequence p has seen acknowledged
AckStale(p, pc) == S16(pc.reliable_ack - p.out_seq_acked) < 0

\* the handler of ev' was given a packet for the engine p, which became q,
\* and rejected it whole
Rejected(p, q) == ev'.err = EINVAL /\ q = p

\* C11 as stated: whenever a received packet has the ACK flag and its
\* reliable_ack is ahead of out_seq_reliable (signed 16-bit), the engine
\* returns an error and leaves every field of the peer unchanged.
C11_AheadRejected ==
    [][/\ (ev'.h = "client_recv" /\ AckAhead(client.peer, ev'.pkt))
            => Rejected(client.peer, client'.peer)
       /\ \A a \in Addrs :
            (/\ ev'.h = "server_recv" /\ ev'.addr = a
             /\ a \in DOMAIN server.peer_list
             /\ AckAhead(server.peer_list[a], ev'.pkt))
               => /\ a \in DOMAIN server'.peer_list
                  /\ Rejected(server.peer_list[a], server'.peer_list[a])]_vars

\* C11 (amended): whenever a received packet has the ACK flag and its
\* reliable_ack is ahead of out_seq_reliable and not behind out_seq_acked
\* (both as signed 16-bit differences), the engine returns an error and
\* leaves every field of the peer unchanged: counters, out_seq_acked, send
\* queue, must_ack, state, deadline and programmed wake time.
C11_AheadNotStaleRejected ==
    [][/\ (/\ ev'.h = "client_recv"
           /\ AckAhead(client.peer, ev'.pkt)
           /\ ~AckStale(client.peer, ev'.pkt))
            => Rejected(client.peer, client'.peer)
       /\ \A a \in Addrs :
            (/\ ev'.h = "server_recv" /\ ev'.addr = a
             /\ a \in DOMAIN server.peer_list
             /\ AckAhead(server.peer_list[a], ev'.pkt)
             /\ ~AckStale(server.peer_list[a], ev'.pkt))
               => /\ a \in DOMAIN server'.peer_list
                  /\ Rejected(server.peer_list[a], server'.peer_list[a])]_vars

\* C11 witness: a client in RUN with a packet in its send queue has just
\* rejected a packet whose ACK is ahead of everything it sent
C11_RejectedInRun ==
    /\ ev.h = "client_recv"
    /\ ev.err = EINVAL
    /\ client.peer.state = PEER_RUN
    /\ client.peer.sendq # <<>>
    /\ AckAhead(client.peer, ev.pkt)
    /\ ~AckStale(client.peer, ev.pkt)

\* the reliable packets of a send queue, by their sequence
Reliables(q) ==
    {q[i].reliable : i \in {j \in 1 .. Len(q) : HasOpt(q[j].opt, RUDP_OPT_RELIABLE)}}

\* the reliable packets of a send queue that carry RETRANSMITTED
Transmitted(q) ==
    {q[i].reliable : i \in {j \in 1 .. Len(q) :
                               /\ HasOpt(q[j].opt, RUDP_OPT_RELIABLE)
                               /\ HasOpt(q[j].opt, RUDP_OPT_RETRANSMITTED)}}

\* rudp_peer_incoming_packet runs peer_handle_ack on the reliable_ack of pc:
\* for the ACK flag, and for a CONN_RSP that a peer in CONNECTING takes
AckHandled(p, pc) ==
    \/ HasOpt(pc.opt, RUDP_OPT_ACK)
    \/ p.state = PEER_CONNECTING /\ pc.command = RUDP_CMD_CONN_RSP

\* the step recorded in ev' took the engine from p to q without resetting
\* it, recv telling whether it was a packet given to p and service whether it
\* was a run of p's service timer:
\* a reliable packet left the queue only by the ACK of the packet received,
\* being marked as transmitted and not after the ACK; and a packet is marked
\* as transmitted only by the service run that transmitted it
QueueKept(p, q, recv, service) ==
    /\ \A seq \in Reliables(p.sendq) \ Reliables(q.sendq) :
          /\ recv
          /\ AckHandled(p, ev'.pkt)
          /\ seq \in Transmitted(p.sendq)
          /\ S16(seq - ev'.pkt.reliable_ack) <= 0
    /\ \A seq \in Transmitted(q.sendq) \ Transmitted(p.sendq) :
          /\ service
          /\ \E k \in 1 .. Len(ev'.tx) :
                /\ HasOpt(ev'.tx[k].opt, RUDP_OPT_RELIABLE)
                /\ ev'.tx[k].reliable = seq

\* the step recorded in ev' reset or destroyed the client's peer
ClientPeerReset ==
    \/ ev'.h \in {"connect", "close"}
    \/ ev'.h \in {"client_recv", "client_service"} /\ ev'.dropped > 0

\* C12: a reliable packet leaves the send queue only through ACK processing,
\* and then only if it has been transmitted at least once and its sequence is
\* at or before the ACK (signed 16-bit), or when the peer is reset or
\* destroyed; an ACK never removes a reliable packet not transmitted yet.
C12_UnqueuedOnlyByAck ==
    [][/\ ~ClientPeerReset
            => QueueKept(client.peer, client'.peer,
                         ev'.h = "client_recv", ev'.h = "client_service")
       /\ \A a \in DOMAIN server.peer_list \cap DOMAIN server'.peer_list :
            QueueKept(server.peer_list[a], server'.peer_list[a],
                      ev'.h = "server_recv" /\ ev'.addr = a,
                      ev'.h = "server_service" /\ ev'.addr = a)]_vars

\* C12 witness: the client has just received an ACK of the newest sequence it
\* assigned while the packet carrying that sequence, never transmitted, waits
\* in the queue, and the packet is still there
C12_UnsentKept ==
    /\ ev.h = "client_recv"
    /\ ev.err = 0
    /\ HasOpt(ev.pkt.opt, RUDP_OPT_ACK)
    /\ ev.pkt.reliable_ack = client.peer.out_seq_reliable
    /\ client.peer.out_seq_acked = client.peer.out_seq_reliable
    /\ client.peer.out_seq_reliable \in
           Reliables(client.peer.sendq) \ Transmitted(client.peer.sendq)

\* the step recorded in ev' took the engine from p to q within one
\* association, recv telling whether it was a packet given to p: out_seq_acked did not go back, it moved only in a receive that
\* ran peer_handle_ack, and an ACK in the past changed neither it nor the queue
AckedForward(p, q, recv) ==
    /\ S16(q.out_seq_acked - p.out_seq_acked) >= 0
    /\ q.out_seq_acked # p.out_seq_acked
          => /\ recv
             /\ AckHandled(p, ev'.pkt)
             /\ q.out_seq_acked = ev'.pkt.reliable_ack
    /\ (recv /\ AckHandled(p, ev'.pkt) /\ AckStale(p, ev'.pkt))
          => /\ q.out_seq_acked = p.out_seq_acked
             /\ Reliables(q.sendq) = Reliables(p.sendq)
             /\ ev'.err = 0

\* C13: during one association, across any sequence of received packets,
\* each new value of out_seq_acked is at or after the previous one under the
\* signed 16-bit difference, and stale ACKs (ack - out_seq_acked < 0) change
\* nothing.
C13_AckedMonotonic ==
    [][/\ ~ClientPeerReset
            => AckedForward(client.peer, client'.peer, ev'.h = "client_recv")
       /\ \A a \in DOMAIN server.peer_list \cap DOMAIN server'.peer_list :
            AckedForward(server.peer_list[a], server'.peer_list[a],
                         ev'.h = "server_recv" /\ ev'.addr = a)]_vars

\* C13 witness: a client in RUN whose newest packet is acknowledged has just
\* been given the ACK before the one it holds
C13_StaleAckSeen ==
    /\ ev.h = "client_recv"
    /\ ev.err = 0
    /\ client.peer.state = PEER_RUN
    /\ HasOpt(ev.pkt.opt, RUDP_OPT_ACK)
    /\ ev.pkt.reliable_ack = U16(client.peer.out_seq_acked - 1)
    /\ client.peer.out_seq_acked = client.peer.out_seq_reliable

(***************************************************************************)
(* SpecFair: one connection on a network that loses datagrams but not for  *)
(* ever, with every due timer run and every datagram in flight delivered   *)
(***************************************************************************)
NextFair ==
    \/ ClientConnect(DataConnects)
    \/ (now <= SendBy /\ ClientSend(FairSend))
    \/ ClientRecv(DataConnects)
    \/ ClientService(DataConnects)
    \/ ServerRecv
    \/ ServerService
    \/ (now <= SendBy /\ ServerSend(FairSend))
    \/ Lose
    \/ Tick(FairTime)

\* when each handler can run
ClientRecvReady ==
    client.bound /\ \E d \in net : d.to = "C" /\ d.addr = client.addr

ClientServiceReady == client.peer.scheduled /\ client.peer.wake <= now

ServerRecvReady == \E d \in net : d.to = "S"

ServerServiceReady ==
    \E a \in DOMAIN server.peer_list :
       server.peer_list[a].scheduled /\ server.peer_list[a].wake <= now

\* Weak fairness of the event loops and of the clock: a datagram in flight
\* is delivered, a due timer is run, time passes.  For the handlers it is
\* written out, WF_vars(A) being []<>~ENABLED <<A>>_vars \/ []<><<A>>_vars,
\* with the handler's guard for ENABLED.
Fairness ==
    /\ WF_vars(Tick(FairTime))
    /\ []<>(~ClientRecvReady) \/ []<><<ClientRecv(DataConnects)>>_vars
    /\ []<>(~ClientServiceReady) \/ []<><<ClientService(DataConnects)>>_vars
    /\ []<>(~ServerRecvReady) \/ []<><<ServerRecv>>_vars
    /\ []<>(~ServerServiceReady) \/ []<><<ServerService>>_vars

SpecFair == Init /\ [][NextFair]_vars /\ Fairness

\* peer p, in RUN, holds a reliable packet in its send queue
Queued(p) ==
    /\ p.source
    /\ p.state = PEER_RUN
    /\ \E i \in 1 .. Len(p.sendq) : HasOpt(p.sendq[i].opt, RUDP_OPT_RELIABLE)

ServerPeer(a) == IF a \in DOMAIN server.peer_list THEN server.peer_list[a] ELSE NoPeer

\* a reliable datagram of tx carries RETRANSMITTED exactly when the send queue
\* of p, the peer before its service ran, holds it as transmitted before
Flagged(p, tx) ==
    \A i \in 1 .. Len(tx) :
       HasOpt(tx[i].opt, RUDP_OPT_RELIABLE)
          => (HasOpt(tx[i].opt, RUDP_OPT_RETRANSMITTED)
                <=> \E j \in 1 .. Len(p.sendq) :
                       /\ HasOpt(p.sendq[j].opt, RUDP_OPT_RELIABLE)
                       /\ HasOpt(p.sendq[j].opt, RUDP_OPT_RETRANSMITTED)
                       /\ p.sendq[j].reliable = tx[i].reliable)

C2_Step ==
    /\ ev'.h = "client_service" => Flagged(client.peer, ev'.tx)
    /\ ev'.h = "server_service" => Flagged(ServerPeer(ev'.addr), ev'.tx)

Classified(p, pc) ==
    IF HasOpt(pc.opt, RUDP_OPT_RELIABLE)
    THEN peer_analyse_reliable(p, pc.reliable).state
    ELSE peer_analyse_unreliable(p, pc.reliable, pc.unreliable).state

\* pc is a CLOSE that gets as far as being classified, and is SEQUENCED
CloseSequenced(p, pc) ==
    /\ pc.command = RUDP_CMD_CLOSE
    /\ ~(HasOpt(pc.opt, RUDP_OPT_ACK) /\ peer_handle_ack_broken(p, pc.reliable_ack))
    /\ Classified(p, pc) = SEQUENCED

\* the receive recorded in ev' called dropped once and answered nothing:
\* nothing transmitted, nothing added to the queue of p, nothing delivered
DroppedSilently(p) ==
    /\ ev'.dropped = 1
    /\ ev'.state = PEER_DEAD
    /\ ev'.tx = <<>>
    /\ ev'.up = <<>>
    /\ ev'.queued <= Len(p.sendq)
    /\ net' \subseteq net

\* the receive recorded in ev' took the engine from p to q and ignored the
\* packet: no handler called, nothing sent or queued, the engine alive in the
\* same state with the same inbound counters and deadline; without an ACK
\* flag nothing but the programmed timer has changed
Ignored(p, q) ==
    /\ ev'.dropped = 0
    /\ ev'.tx = <<>>
    /\ ev'.up = <<>>
    /\ net' \subseteq net
    /\ q.source
    /\ q.state = p.state
    /\ q.in_seq_reliable = p.in_seq_reliable
    /\ q.in_seq_unreliable = p.in_seq_unreliable
    /\ q.abs_timeout_deadline = p.abs_timeout_deadline
    /\ q.must_ack = p.must_ack
    /\ Len(q.sendq) <= Len(p.sendq)
    /\ ~HasOpt(ev'.pkt.opt, RUDP_OPT_ACK)
          => q = [p EXCEPT !.scheduled = q.scheduled, !.wake = q.wake]

\* pc is a CLOSE whose reliable field is not p's in_seq_reliable; with
\* unflagged set, only a CLOSE without the RELIABLE flag, as it is sent
OtherReliable(p, pc, unflagged) ==
    /\ pc.command = RUDP_CMD_CLOSE
    /\ pc.reliable # p.in_seq_reliable
    /\ unflagged => ~HasOpt(pc.opt, RUDP_OPT_RELIABLE)

\* the receive recorded in ev' gave a CLOSE to a live engine: a SEQUENCED one
\* is answered by one dropped call and nothing else; one with another
\* reliable field is ignored
CloseHandled(unflagged) ==
    /\ (ev'.h = "client_recv" /\ client.peer.source)
          => /\ CloseSequenced(client.peer, ev'.pkt) => DroppedSilently(client.peer)
             /\ OtherReliable(client.peer, ev'.pkt, unflagged)
                   => Ignored(client.peer, client'.peer)
    /\ \A a \in DOMAIN server.peer_list :
          (ev'.h = "server_recv" /\ ev'.addr = a)
             => /\ CloseSequenced(server.peer_list[a], ev'.pkt)
                      => /\ DroppedSilently(server.peer_list[a])
                         /\ obs'.peer_dropped[a] = obs.peer_dropped[a] + 1
                /\ OtherReliable(server.peer_list[a], ev'.pkt, unflagged)
                      => /\ a \in DOMAIN server'.peer_list
                         /\ obs'.peer_dropped[a] = obs.peer_dropped[a]
                         /\ Ignored(server.peer_list[a], server'.peer_list[a])

\* C19 as stated: a CLOSE classified SEQUENCED causes exactly one call of
\* the dropped handler and no datagram is enqueued or sent in response; a
\* CLOSE whose reliable field differs from the receiver's in_seq_reliable is
\* UNSEQUENCED, is ignored, and leaves the peer alive.
C19_CloseByReliableField == [][CloseHandled(FALSE)]_vars

\* C19 (amended): a CLOSE classified SEQUENCED causes exactly one call of
\* the dropped handler and no datagram is enqueued or sent in response; a
\* CLOSE without the RELIABLE flag whose reliable field differs from the
\* receiver's in_seq_reliable is UNSEQUENCED, is ignored, and leaves the
\* peer alive.
C19_CloseUnflagged == [][CloseHandled(TRUE)]_vars

\* C19 witness: a server peer that had delivered a packet of the client's
\* application in RUN was given a CLOSE as rudp_peer_send_close_noqueue
\* builds it (no flags), took it as SEQUENCED and called dropped
C19_PeerDroppedByClose ==
    /\ ev.h = "server_recv"
    /\ ev.pkt.command = RUDP_CMD_CLOSE
    /\ ev.pkt.opt = 0
    /\ ev.dropped = 1
    /\ ev.state = PEER_DEAD
    /\ ev.addr \in Addrs
    /\ obs.sup[ev.addr] # <<>>
    /\ obs.peer_dropped[ev.addr] = 1

\* the receive recorded in ev', of a packet given to the engine p, called
\* handle_packet only if p was in RUN and the command is one of the
\* application's
UpInRun(p) ==
    ev'.up # <<>>
       => /\ p.source
          /\ p.state = PEER_RUN
          /\ ev'.pkt.command >= RUDP_CMD_APP
          /\ ev'.up = <<Seen(ev'.pkt)>>

\* C20: the engine invokes handle_packet only while the peer state is RUN
\* and only for commands greater than or equal to RUDP_CMD_APP (0x10); in
\* NEW, CONNECTING or DEAD no application payload is ever delivered upward.
C20_UpOnlyInRun ==
    [][/\ ev'.up # <<>> => ev'.h \in {"client_recv", "server_recv"}
       /\ ev'.h = "client_recv" => UpInRun(client.peer)
       /\ ev'.h = "server_recv"
            => /\ ev'.up # <<>> => ev'.addr \in DOMAIN server.peer_list
               /\ \A a \in DOMAIN server.peer_list :
                     ev'.addr = a => UpInRun(server.peer_list[a])
       /\ obs'.cup # obs.cup => ev'.h = "client_recv" /\ ev'.up # <<>>
       /\ \A a \in Addrs :
             obs'.sup[a] # obs.sup[a]
                => ev'.h = "server_recv" /\ ev'.addr = a /\ ev'.up # <<>>]_vars

\* C20 witness: a server peer in RUN has handed a packet of the client's
\* application to handle_packet
C20_DeliveredInRun ==
    /\ ev.h = "server_recv"
    /\ ev.up # <<>>
    /\ ev.state = PEER_RUN
    /\ ev.pkt.command >= RUDP_CMD_APP
    /\ ev.addr \in Addrs
    /\ obs.sup[ev.addr] # <<>>

\* no application has sent anything and the network has lost nothing
IdleHealthy ==
    /\ app.csent = 0
    /\ app.ssent = 0
    /\ app.lost = 0
    /\ ~app.spill

\* a live engine in RUN transmitted its last datagram no longer ago than
\* ACTION_TIMEOUT plus the 1 ms granularity of the timer
NotSilent(p) ==
    (p.source /\ p.state = PEER_RUN)
       => now - p.last_out_time <= ACTION_TIMEOUT + 1

TimedOut(p) ==
    p.abs_timeout_deadline < now
       => /\ ev'.dropped = 1
          /\ ev'.tx = <<>>
          /\ ev'.queued = Len(p.sendq)

\* at a run of the service timer after the deadline the engine is DEAD when
\* it returns
TimedOutDead(p) == p.abs_timeout_deadline < now => ev'.state = PEER_DEAD

\* a live engine has its service timer programmed for no later than 1 ms
\* after its deadline
Programmed(p) ==
    p.source => p.scheduled /\ p.wake <= p.abs_timeout_deadline + 1

\* C14, the service run: at a service invocation with now > drop_deadline
\* the dropped handler is invoked exactly once and no datagram is
\* transmitted or enqueued
C14_Dropped ==
    [][/\ ev'.h = "client_service" => TimedOut(client.peer)
       /\ \A a \in DOMAIN server.peer_list :
            (ev'.h = "server_service" /\ ev'.addr = a)
               => TimedOut(server.peer_list[a])]_vars

\* C14, the timer: the service timer is always programmed so that the
\* invocation happens no later than 1 ms after drop_deadline
C14_Programmed ==
    /\ Programmed(client.peer)
    /\ \A a \in DOMAIN server.peer_list : Programmed(server.peer_list[a])

\* C14: if a peer accepts no datagram for DROP_TIMEOUT, then at the first
\* service invocation with now > drop_deadline the peer transitions to DEAD
\* and the dropped handler is invoked exactly once, with no datagram
\* transmitted or enqueued in that invocation.
C14_TimeoutDropsDead ==
    [][/\ ev'.h = "client_service"
            => TimedOut(client.peer) /\ TimedOutDead(client.peer)
       /\ \A a \in DOMAIN server.peer_list :
            (ev'.h = "server_service" /\ ev'.addr = a)
               => /\ TimedOut(server.peer_list[a])
                  /\ TimedOutDead(server.peer_list[a])]_vars

\* the client's service timer has run after the deadline and called dropped
C14_ClientTimedOut ==
    /\ ev.h = "client_service"
    /\ ev.dropped = 1
    /\ obs.server_lost[client.addr] = 1

(***************************************************************************)
(* SpecShut: one connection that either side may close at any time, the    *)
(* applications sending whenever the library accepts it                    *)
(***************************************************************************)
NextShut ==
    \/ ClientConnect(DataConnects)
    \/ ClientSend(LifeSend)
    \/ ClientSendClosed(LifeSend)
    \/ ClientClose
    \/ ClientRecv(DataConnects)
    \/ ClientService(DataConnects)
    \/ ServerRecv
    \/ ServerService
    \/ ServerClientClose
    \/ ServerClose
    \/ Tick(ShutTime)

SpecShut == Init /\ [][NextShut]_vars

\* datagrams in n sent from the client's address
FromClient(n) == {d \in n : d.to = "S" /\ d.addr = client.addr}

\* datagrams in n sent by the server to a
ToAddr(n, a) == {d \in n : d.to = "C" /\ d.addr = a}

\* the client's peer has been dropped or closed and not connected again
ClientPeerGone == app.connects > 0 /\ ~client.peer.source

\* C15: once a peer has been dropped or closed, and the application does
\* not reconnect, its send queue is empty, its service timer is no longer
\* scheduled, and no datagram is transmitted for that peer afterwards.
C15_GoneIsQuiet ==
    [][/\ ClientPeerGone'
            => client'.peer.sendq = <<>> /\ ~client'.peer.scheduled
       /\ ClientPeerGone => FromClient(net') \subseteq FromClient(net)
       /\ \A a \in Addrs :
            (a \notin DOMAIN server.peer_list /\ a \notin DOMAIN server'.peer_list)
               => ToAddr(net', a) \subseteq ToAddr(net, a)]_vars

\* C15, without sends after the peer is gone: when the handler that drops or
\* closes the peer returns, the send queue is empty and the service timer is
\* not scheduled; and a peer that is gone transmits no datagram
C15_QuietWhenGone ==
    [][/\ (~ClientPeerGone /\ ClientPeerGone')
            => client'.peer.sendq = <<>> /\ ~client'.peer.scheduled
       /\ ClientPeerGone => FromClient(net') \subseteq FromClient(net)
       /\ \A a \in Addrs :
            (a \notin DOMAIN server.peer_list /\ a \notin DOMAIN server'.peer_list)
               => ToAddr(net', a) \subseteq ToAddr(net, a)]_vars

\* the client closed its connection and a send was then accepted and queued
C15_QueuedAfterClose ==
    /\ ClientPeerGone
    /\ ev.h = "client_send"
    /\ client.peer.sendq # <<>>

(***************************************************************************)
(* client.c, peer.c: rudp_client_close                                     *)
(***************************************************************************)
\* the header rudp_peer_send_close_noqueue builds for peer p
CloseOf(p) ==
    [Packet(RUDP_CMD_CLOSE, HeaderSize, 0) EXCEPT
        !.reliable = p.out_seq_reliable,
        !.unreliable = U16(p.out_seq_unreliable + 1)]

\* the datagrams a step has put on the wire
Sent == net' \ net

\* C17: rudp_client_close transmits exactly one CLOSE datagram, at once and
\* not through the send queue, with reliable = out_rel, unreliable = previous
\* out_unrel + 1 and no RELIABLE flag, whatever the send queue holds; the
\* packets still queued are discarded unsent and the peer is torn down in the
\* same call, without waiting for an acknowledgement.
C17_CloseSendsOneClose ==
    [][ev'.h = "close"
         => /\ ev'.tx = <<CloseOf(client.peer)>>
            /\ ~HasOpt(ev'.tx[1].opt, RUDP_OPT_RELIABLE)
            /\ Sent \subseteq {Dgram("S", client.addr, CloseOf(client.peer))}
            /\ (server.bound /\ ~app'.spill) => Sent # {}
            /\ client'.peer.sendq = <<>>
            /\ ~client'.peer.source
            /\ ~client'.peer.scheduled
            /\ ~client'.bound]_vars

\* C17 witness: the client closed while a reliable packet was still waiting
\* for its acknowledgement in the send queue, and the CLOSE is on the wire
C17_ClosedWithQueue ==
    /\ ev.h = "close"
    /\ ev.queued > 0
    /\ ev.state = PEER_RUN
    /\ \E d \in net : d.to = "S" /\ d.pkt = ev.tx[1]

(***************************************************************************)
(* server.c: rudp_server_client_close, rudp_server_close                   *)
(***************************************************************************)
\* the peers a step removed from the server's list
Forgotten == DOMAIN server.peer_list \ DOMAIN server'.peer_list

\* C18: when the server application closes a peer with
\* rudp_server_client_close, or all its peers with rudp_server_close, one
\* CLOSE datagram is sent to each closed peer before its engine is torn
\* down.
C18_ServerCloseSendsClose ==
    [][ev'.h \in {"server_client_close", "server_close"}
         => \A a \in Forgotten :
               \E d \in Sent :
                  /\ d.to = "C"
                  /\ d.addr = a
                  /\ d.pkt = CloseOf(server.peer_list[a])]_vars

\* C18 case: the server application has closed the peer of a connected
\* client, nothing is on its way to that client, and the client is still in
\* RUN
C18_ClosedUnnoticed ==
    /\ ev.h \in {"server_client_close", "server_close"}
    /\ client.peer.source
    /\ client.peer.state = PEER_RUN
    /\ client.addr \in Addrs
    /\ client.addr \notin DOMAIN server.peer_list
    /\ obs.peer_new[client.addr] > 0
    /\ ToAddr(net, client.addr) = {}

(***************************************************************************)
(* peer.c: peer_handle_ping                                                *)
(***************************************************************************)
\* the receive recorded in ev' gave a PING to the engine p, in RUN, which
\* became q: a SEQUENCED one without RETRANSMITTED has put one PONG, not
\* reliable, with the length and payload of the PING, at the end of the queue
\* and transmitted nothing; one with RETRANSMITTED, or classified
\* RETRANSMITTED, has added no PONG, and if it is a reliable packet the ACK is
\* owed and a packet to carry it is queued with the timer programmed
PingHandled(p, q) ==
    LET pc == ev'.pkt
        Pongs(sq) == Cardinality({i \in 1 .. Len(sq) : sq[i].command = RUDP_CMD_PONG})
        pong == [Packet(RUDP_CMD_PONG, pc.len, pc.data) EXCEPT
                    !.reliable = p.out_seq_reliable,
                    !.unreliable = U16(p.out_seq_unreliable + 1)]
        again == \/ HasOpt(pc.opt, RUDP_OPT_RETRANSMITTED)
                 \/ Classified(p, pc) = RETRANSMITTED
    IN  (/\ pc.command = RUDP_CMD_PING
         /\ p.source
         /\ p.state = PEER_RUN
         /\ ev'.err = 0)
          => /\ (Classified(p, pc) = SEQUENCED /\ ~HasOpt(pc.opt, RUDP_OPT_RETRANSMITTED))
                   => /\ Pongs(q.sendq) = Pongs(p.sendq) + 1
                      /\ q.sendq # <<>>
                      /\ q.sendq[Len(q.sendq)] = pong
                      /\ q.out_seq_unreliable = pong.unreliable
                      /\ ev'.tx = <<>>
             /\ again
                   => /\ Pongs(q.sendq) = Pongs(p.sendq)
                      /\ q.out_seq_unreliable = p.out_seq_unreliable
                            \/ (q.sendq # <<>> /\ q.sendq[Len(q.sendq)].command = RUDP_CMD_NOOP)
                      /\ HasOpt(pc.opt, RUDP_OPT_RELIABLE)
                            => q.must_ack /\ q.sendq # <<>> /\ q.scheduled

\* C21: for a peer in RUN, a sequenced PING with RETRANSMITTED clear causes
\* exactly one unreliable PONG echoing its payload to be enqueued; a PING
\* carrying RETRANSMITTED, and any duplicate of an already accepted PING, is
\* acknowledged (being a reliable packet, as PINGs are sent) but causes no
\* PONG.
C21_PongOncePerPing ==
    [][/\ ev'.h = "client_recv" => PingHandled(client.peer, client'.peer)
       /\ \A a \in DOMAIN server.peer_list \cap DOMAIN server'.peer_list :
             (ev'.h = "server_recv" /\ ev'.addr = a)
                => PingHandled(server.peer_list[a], server'.peer_list[a])]_vars

\* C21 witness: a server peer in RUN has taken a PING that carries
\* RETRANSMITTED as the next in sequence (its first transmission was lost)
\* and owes the ACK, with no PONG in its queue
C21_RetransmittedPingTaken ==
    /\ ev.h = "server_recv"
    /\ ev.pkt.command = RUDP_CMD_PING
    /\ HasOpt(ev.pkt.opt, RUDP_OPT_RETRANSMITTED)
    /\ ev.state = PEER_RUN
    /\ ev.addr \in DOMAIN server.peer_list
    /\ server.peer_list[ev.addr].in_seq_reliable = ev.pkt.reliable
    /\ app.lost = 1
    /\ server.peer_list[ev.addr].must_ack
    /\ \A i \in 1 .. Len(server.peer_list[ev.addr].sendq) :
          server.peer_list[ev.addr].sendq[i].command # RUDP_CMD_PONG

(***************************************************************************)
(* server.c: the callbacks of one server-side peer                         *)
(***************************************************************************)
\* C22: for each server-side peer the application callbacks occur in the
\* order peer_new once, then zero or more handle_packet, then at most one
\* peer_dropped; handle_packet and peer_dropped are never invoked for a peer
\* before its peer_new nor after its peer_dropped.  A peer is in peer_list
\* from its peer_new to its peer_dropped (or to its close by the
\* application), and only a peer in the list gets a callback.
C22_CallbackOrder ==
    [][\A a \in Addrs :
          LET new == obs'.peer_new[a] - obs.peer_new[a]
              drop == obs'.peer_dropped[a] - obs.peer_dropped[a]
              up == ev'.h = "server_recv" /\ ev'.addr = a /\ ev'.up # <<>>
              before == a \in DOMAIN server.peer_list
              after == a \in DOMAIN server'.peer_list
          IN  /\ new \in {0, 1}
              /\ drop \in {0, 1}
              /\ new = 1 => ~before /\ after /\ drop = 0 /\ ~up
              /\ (~before /\ after) => new = 1
              /\ up => before /\ after /\ drop = 0
              /\ drop = 1 => before /\ ~after
              /\ obs'.sup[a] # obs.sup[a] => up \/ new = 1
              /\ obs'.peer_dropped[a] <= obs'.peer_new[a]]_vars

\* C22 witness: a server peer has had its peer_new, has handed a packet to
\* handle_packet and has now been dropped, all once
C22_NewPacketDropped ==
    /\ ev.h \in {"server_recv", "server_service"}
    /\ ev.dropped = 1
    /\ ev.addr \in Addrs
    /\ obs.peer_new[ev.addr] = 1
    /\ obs.peer_dropped[ev.addr] = 1
    /\ obs.sup[ev.addr] # <<>>

(***************************************************************************)
(* server.c: server_handle_endpoint_packet, datagram from an unknown       *)
(* address                                                                 *)
(***************************************************************************)
\* C23: a datagram from an address that has no peer adds a peer to the
\* server's collection only if it is a CONN_REQ of exactly the CONN_REQ
\* length that the new engine accepts; every other datagram from an unknown
\* address leaves the collection unchanged and triggers no callback and no
\* reply; and the collection never holds two peers with the same remote
\* address.
C23_NewPeerOnlyByConnReq ==
    [][/\ \A a \in Addrs \ DOMAIN server.peer_list :
             (ev'.h = "server_recv" /\ ev'.addr = a)
                => LET taken == /\ ev'.pkt.command = RUDP_CMD_CONN_REQ
                                /\ ev'.pkt.len = ConnReqSize
                                /\ ev'.err = 0
                   IN  /\ a \in DOMAIN server'.peer_list => taken
                       /\ ~taken
                             => /\ server' = server
                                /\ obs'.peer_new = obs.peer_new
                                /\ obs'.peer_dropped = obs.peer_dropped
                                /\ ev'.up = <<>>
                                /\ ev'.tx = <<>>
                                /\ net' \subseteq net
       /\ \A a \in Addrs :
             /\ server'.items[a] <= 1
             /\ server'.items[a] = 1 <=> a \in DOMAIN server'.peer_list]_vars

\* C23 witness: a CONN_REQ of the right length from an address without a
\* peer was rejected by the engine created for it (its ACK is ahead of
\* anything that engine sent), and the address has no peer
C23_ConnReqRejected ==
    /\ ev.h = "server_recv"
    /\ ev.pkt.command = RUDP_CMD_CONN_REQ
    /\ ev.pkt.len = ConnReqSize
    /\ ev.err = EINVAL
    /\ ev.addr \in Addrs \ DOMAIN server.peer_list
    /\ obs.peer_new[ev.addr] = 0

(***************************************************************************)
(* endpoint.c, server.c, client.c, peer.c: length of a received datagram   *)
(***************************************************************************)
\* pc is shorter than the header, or than the least length of its command
Short(pc) ==
    \/ pc.len < HeaderSize
    \/ pc.command \in {RUDP_CMD_CONN_REQ, RUDP_CMD_CONN_RSP} /\ pc.len < HeaderSize + 4
    \/ pc.command \in {RUDP_CMD_PING, RUDP_CMD_PONG} /\ pc.len < HeaderSize + TimeSize

\* C24: a datagram shorter than the 8-byte header, or shorter than the
\* minimum length of its command (CONN_REQ and CONN_RSP: header + 4 bytes;
\* PING and PONG: header + 8 bytes), is dropped without changing any peer
\* state and without any reply, whether or not its source address already
\* has a peer.
C24_ShortDropped ==
    [][(Received /\ Short(ev'.pkt))
          => /\ ev'.tx = <<>>
             /\ ev'.up = <<>>
             /\ ev'.dropped = 0
             /\ net' \subseteq net
             /\ ev'.h = "client_recv" => client' = client
             /\ ev'.h = "server_recv" => server' = server]_vars

\* C24 case: a client in RUN was given a PING of 8 bytes, a header without
\* the timestamp, and has queued a PONG of 8 bytes for it
C24_ShortPingAnswered ==
    /\ ev.h = "client_recv"
    /\ ev.pkt.command = RUDP_CMD_PING
    /\ ev.pkt.len = HeaderSize
    /\ ev.err = 0
    /\ client.peer.state = PEER_RUN
    /\ \E i \in 1 .. Len(client.peer.sendq) :
          /\ client.peer.sendq[i].command = RUDP_CMD_PONG
          /\ client.peer.sendq[i].len = HeaderSize

(***************************************************************************)
(* peer.c: what an ACK tells the sender                                    *)
(***************************************************************************)
\* every reliable packet of the application that the receive recorded in ev'
\* removed from the queue of p, which became q, is once in log, the packets
\* the remote engine has passed to handle_packet
AckedWasDelivered(p, q, log) ==
    \A i \in 1 .. Len(p.sendq) :
       (ReliableApp(p.sendq[i]) /\ p.sendq[i].reliable \notin Reliables(q.sendq))
          => Cardinality({k \in 1 .. Len(log) :
                             /\ log[k].rel
                             /\ log[k].command = p.sendq[i].command
                             /\ log[k].reliable = p.sendq[i].reliable
                             /\ log[k].data = p.sendq[i].data}) = 1

\* C25: whenever an ACK causes a sender to remove a reliable application
\* packet from its send queue, the remote engine has passed that packet to
\* its handle_packet handler exactly once: a reliable application packet is
\* never acknowledged by an engine that discarded its payload.
C25_AckMeansDelivered ==
    [][/\ (ev'.h = "client_recv" /\ ev'.dropped = 0)
            => AckedWasDelivered(client.peer, client'.peer, obs.sup[client.addr])
       /\ (/\ ev'.h = "server_recv"
           /\ ev'.addr = client.addr
           /\ ev'.addr \in DOMAIN server.peer_list \cap DOMAIN server'.peer_list)
            => AckedWasDelivered(server.peer_list[ev'.addr],
                                 server'.peer_list[ev'.addr], obs.cup)]_vars

\* C25 case: with nothing lost or duplicated, the client has had its first
\* reliable packet after the CONN_REQ acknowledged and holds nothing more to
\* send, while the server's peer for it, still in NEW, has passed nothing to
\* handle_packet
C25_AckedUndelivered ==
    /\ ev.h = "client_recv"
    /\ app.lost = 0
    /\ app.dups = 0
    /\ app.csent > 0
    /\ client.peer.source
    /\ client.peer.sendq = <<>>
    /\ client.peer.out_seq_reliable = U16(obs.conn_req[client.addr] + 1)
    /\ client.peer.out_seq_acked = client.peer.out_seq_reliable
    /\ client.addr \in DOMAIN server.peer_list
    /\ server.peer_list[client.addr].state = PEER_NEW
    /\ obs.sup[client.addr] = <<>>

ClientStream ==
    /\ client.peer.source
    /\ app.csent < StreamSend
    /\ now = (app.csent + 1) * StreamPeriod
    /\ \E reliable \in BOOLEAN :
          /\ rudp_client_send_ret(client, 0) = 0
          /\ client' = rudp_client_send(client, reliable, 0, app.csent + 1, now)
    /\ app' = [app EXCEPT !.csent = @ + 1]
    /\ ev' = Quiet("client_send")
    /\ UNCHANGED <<now, server, net, obs>>

\* Time passes up to the next timer, of an engine or of the application; a
\* due timer fires before time moves on.
TickStream ==
    LET due == Wakes \cup (IF app.csent < StreamSend /\ client.peer.source
                           THEN {(app.csent + 1) * StreamPeriod} ELSE {})
    IN  /\ net = {}
        /\ due # {}
        /\ \A wk \in due : wk > now
        /\ Min(due) <= StreamTime
        /\ now' = Min(due)
        /\ ev' = Quiet("tick")
        /\ UNCHANGED <<client, server, net, app, obs>>

NextStream ==
    \/ ClientConnect(DataConnects)
    \/ ClientStream
    \/ ClientRecv(DataConnects)
    \/ ClientService(DataConnects)
    \/ ServerRecv
    \/ ServerService
    \/ ServerSend(MaxReply)
    \/ Lose
    \/ TickStream

SpecStream == Init /\ [][NextStream]_vars

\* C27: between two peers in RUN with no datagram loss and one-way latency
\* far below ACTION_TIMEOUT, neither peer ever invokes dropped through
\* timeout, whatever the applications send: both idle, one side sending a
\* steady stream of unreliable packets, timers firing exactly at their
\* programmed millisecond.
C27_NoTimeoutInRun ==
    [][\A a \in Addrs :
          (/\ client.peer.source
           /\ client.addr = a
           /\ client.peer.state = PEER_RUN
           /\ a \in DOMAIN server.peer_list
           /\ server.peer_list[a].state = PEER_RUN
           /\ app.lost = 0
           /\ ev'.h \in {"client_service", "server_service"}
           /\ ev'.addr = a)
             => ev'.dropped = 0]_vars

\* C27 case: with nothing lost and both engines in RUN, the client, whose
\* application has sent only unreliable packets, one every StreamPeriod, has
\* run its service timer after its deadline and called dropped, while the
\* server's peer for it is still in RUN and has heard it within the last
\* StreamPeriod
C27_StreamingClientDropped ==
    /\ ev.h = "client_service"
    /\ ev.dropped = 1
    /\ app.lost = 0
    /\ app.ssent = 0
    /\ app.csent >= 4
    /\ obs.cup = <<>>
    /\ ev.addr \in DOMAIN server.peer_list
    /\ server.peer_list[ev.addr].state = PEER_RUN
    /\ Len(obs.sup[ev.addr]) = app.csent - 1
    /\ \A k \in 1 .. Len(obs.sup[ev.addr]) : ~obs.sup[ev.addr][k].rel
    /\ now - server.peer_list[ev.addr].abs_timeout_deadline + DROP_TIMEOUT <= StreamPeriod
(***************************************************************************)
(* peer.c: the wake time while the head of the queue waits for its ACK     *)
(***************************************************************************)
\* with a transmitted packet at the head of its queue, the engine q has its
\* timer programmed for last_out_time + rto, no later than the deadline and
\* no sooner than 1 ms from now
WakeAtRto(q) ==
    LET due == q.last_out_time + q.rto
        clipped == IF q.abs_timeout_deadline < due
                   THEN q.abs_timeout_deadline ELSE due
    IN  (/\ q.source
         /\ q.sendq # <<>>
         /\ HasOpt(Head(q.sendq).opt, RUDP_OPT_RETRANSMITTED))
           => /\ q.scheduled
              /\ q.wake = IF clipped <= now THEN now + 1 ELSE clipped

\* C28: whenever the wake time is recomputed (by a receive, a service run or
\* a send that returns without dropping the peer) while the head of the send
\* queue has already been transmitted, the service timer is programmed to
\* fire at absolute time last_out_time + rto, clipped to drop_deadline and to
\* at least 1 ms from now, however long ago last_out_time is.
C28_WakeAtRto ==
    [][/\ (/\ ev'.h \in {"client_recv", "client_service", "client_send"}
           /\ ev'.err = 0
           /\ ev'.dropped = 0)
            => WakeAtRto(client'.peer)
       /\ \A a \in DOMAIN server'.peer_list :
             (/\ ev'.h \in {"server_recv", "server_service", "server_send"}
              /\ ev'.addr = a
              /\ ev'.err = 0
              /\ ev'.dropped = 0)
               => WakeAtRto(server'.peer_list[a])]_vars

\* C28 case: the client, in RUN, has taken a datagram that left the
\* transmitted reliable packet at the head of its queue, some time after it
\* last transmitted, and its timer is programmed for later than
\* last_out_time + rto although that is ahead of now and within the deadline
C28_WakePostponed ==
    /\ ev.h = "client_recv"
    /\ ev.err = 0
    /\ ev.dropped = 0
    /\ client.peer.source
    /\ client.peer.state = PEER_RUN
    /\ client.peer.sendq # <<>>
    /\ ReliableApp(Head(client.peer.sendq))
    /\ HasOpt(Head(client.peer.sendq).opt, RUDP_OPT_RETRANSMITTED)
    /\ now > client.peer.last_out_time
    /\ now < client.peer.last_out_time + client.peer.rto
    /\ client.peer.last_out_time + client.peer.rto < client.peer.abs_timeout_deadline
    /\ client.peer.scheduled
    /\ client.peer.wake = 2 * now - client.peer.last_out_time + client.peer.rto
(***************************************************************************)
(* peer.c: retransmission under inbound traffic                            *)
(***************************************************************************)
\* the engine q, alive, holds at the head of its queue a reliable packet it
\* has transmitted and not seen acknowledged
AwaitsAck(q) ==
    /\ q.source
    /\ q.sendq # <<>>
    /\ HasOpt(Head(q.sendq).opt, RUDP_OPT_RELIABLE)
    /\ HasOpt(Head(q.sendq).opt, RUDP_OPT_RETRANSMITTED)

\* C29: while an already transmitted reliable packet is unacknowledged at
\* the head of the send queue, it is retransmitted within a bounded time
\* after its previous transmission (here: within DROP_TIMEOUT, after which
\* a silent remote is given up) even if datagrams from the remote keep
\* arriving at intervals shorter than rto.
C29_RetransmittedInTime ==
    /\ AwaitsAck(client.peer) => now - client.peer.last_out_time <= DROP_TIMEOUT
    /\ \A a \in DOMAIN server.peer_list :
          AwaitsAck(server.peer_list[a])
             => now - server.peer_list[a].last_out_time <= DROP_TIMEOUT

\* C29 case: the server's peer, in RUN, has just taken one more packet of
\* the client's stream; the reliable application packet at the head of its
\* queue was transmitted more than three times MAX_RTO ago, and the timer
\* that retransmits it is programmed for more than MAX_RTO from now
C29_RetransmissionPostponed ==
    /\ ev.h = "server_recv"
    /\ ev.err = 0
    /\ ev.dropped = 0
    /\ ev.pkt.command = RUDP_CMD_APP
    /\ ev.addr \in DOMAIN server.peer_list
    /\ server.peer_list[ev.addr].state = PEER_RUN
    /\ AwaitsAck(server.peer_list[ev.addr])
    /\ ReliableApp(Head(server.peer_list[ev.addr].sendq))
    /\ now - server.peer_list[ev.addr].last_out_time > 3 * MAX_RTO
    /\ server.peer_list[ev.addr].scheduled
    /\ server.peer_list[ev.addr].wake > now + MAX_RTO
(***************************************************************************)
(* peer.c: unreliable packets in the send queue                            *)
(***************************************************************************)
\* the service run recorded in ev', which took the engine from p to q, has
\* transmitted every unreliable packet of the queue of p once and has left
\* none of them in the queue of q
UnreliableFlushed(p, q) ==
    \A i \in 1 .. Len(p.sendq) :
       ~HasOpt(p.sendq[i].opt, RUDP_OPT_RELIABLE)
          => LET same(pc) == /\ ~HasOpt(pc.opt, RUDP_OPT_RELIABLE)
                             /\ pc.command = p.sendq[i].command
                             /\ pc.reliable = p.sendq[i].reliable
                             /\ pc.unreliable = p.sendq[i].unreliable
                             /\ pc.data = p.sendq[i].data
             IN  /\ Cardinality({k \in 1 .. Len(ev'.tx) : same(ev'.tx[k])}) = 1
                 /\ \A j \in 1 .. Len(q.sendq) : ~same(q.sendq[j])

\* C30: every unreliable packet enqueued is transmitted during the next
\* service invocation after its enqueue (one that finds the deadline not
\* passed), exactly once, and is removed from the queue in that same
\* invocation, whatever else the send queue holds, an unacknowledged,
\* already transmitted reliable packet ahead of it included.
C30_UnreliableSentAtNextService ==
    [][/\ (ev'.h = "client_service" /\ ev'.dropped = 0)
            => UnreliableFlushed(client.peer, client'.peer)
       /\ \A a \in DOMAIN server.peer_list \cap DOMAIN server'.peer_list :
             (ev'.h = "server_service" /\ ev'.addr = a /\ ev'.dropped = 0)
                => UnreliableFlushed(server.peer_list[a], server'.peer_list[a])]_vars

\* C30 case: the client's service timer has run before the deadline and
\* transmitted one datagram, the reliable packet at the head of its queue
\* again, and an unreliable packet of the application is still in the queue
\* behind it
C30_UnreliableHeldBack ==
    /\ ev.h = "client_service"
    /\ ev.dropped = 0
    /\ Len(ev.tx) = 1
    /\ HasOpt(ev.tx[1].opt, RUDP_OPT_RELIABLE)
    /\ HasOpt(ev.tx[1].opt, RUDP_OPT_RETRANSMITTED)
    /\ client.peer.source
    /\ Len(client.peer.sendq) > 1
    /\ Head(client.peer.sendq).reliable = ev.tx[1].reliable
    /\ HasOpt(Head(client.peer.sendq).opt, RUDP_OPT_RELIABLE)
    /\ \E j \in 2 .. Len(client.peer.sendq) :
          /\ client.peer.sendq[j].command = RUDP_CMD_APP
          /\ ~HasOpt(client.peer.sendq[j].opt, RUDP_OPT_RELIABLE)
(***************************************************************************)
(* peer.c, server.c: the peer after its dropped handler                    *)
(***************************************************************************)
\* C31: after the engine has invoked the dropped handler, which on the
\* server side frees the peer structure, the engine performs no further
\* read or write of that peer in the same call, neither in
\* rudp_peer_incoming_packet on a sequenced CLOSE nor in peer_service on
\* timeout.
C31_NoAccessAfterDropped ==
    [][ev'.dropped > 0 => (ev'.late = 0 /\ ~ev'.fault)]_vars

\* C31 case: the server's engine was given a sequenced CLOSE for a peer in
\* RUN, called dropped, which freed the peer, read the peer once more, and
\* the process ended there
C31_FreedPeerRead ==
    /\ ev.h = "server_recv"
    /\ ev.pkt.command = RUDP_CMD_CLOSE
    /\ ev.dropped = 1
    /\ ev.state = PEER_DEAD
    /\ ev.late = 1
    /\ ev.fault
    /\ obs.peer_dropped[ev.addr] = 1
    /\ ~server.bound
    /\ DOMAIN server.peer_list = {}
(***************************************************************************)
(* peer.c: the acknowledgement owed for a reliable packet                  *)
(***************************************************************************)
\* the service run recorded in ev' of the engine p, which owed an
\* acknowledgement if owed is true, has stamped what it transmitted: every
\* datagram carries ACK and the in_seq_reliable of p once must_ack is set,
\* and there is at least one if an acknowledgement was owed
AckSent(p, owed) ==
    /\ p.must_ack
          => \A i \in 1 .. Len(ev'.tx) :
                /\ HasOpt(ev'.tx[i].opt, RUDP_OPT_ACK)
                /\ ev'.tx[i].reliable_ack = p.in_seq_reliable
    /\ owed => (p.must_ack /\ ev'.tx # <<>>)

\* C32: after a peer has received a SEQUENCED or RETRANSMITTED reliable
\* packet, the next service invocation (unless it drops the peer) transmits
\* at least one datagram with the ACK flag and reliable_ack equal to
\* in_seq_reliable, a NOOP carrier if the send queue was empty, and every
\* datagram sent from the queue afterwards carries the ACK flag with
\* reliable_ack equal to in_seq_reliable at the time of its transmission,
\* must_ack never being cleared.
C32_AckAtNextService ==
    [][/\ (ev'.h = "client_service" /\ ev'.dropped = 0)
            => AckSent(client.peer, obs.cowe)
       /\ \A a \in DOMAIN server.peer_list :
             (ev'.h = "server_service" /\ ev'.addr = a /\ ev'.dropped = 0)
                => AckSent(server.peer_list[a], obs.sowe[a])
       /\ (ev'.h = "client_recv" /\ ev'.dropped = 0 /\ client.peer.must_ack)
            => client'.peer.must_ack
       /\ \A a \in DOMAIN server.peer_list \cap DOMAIN server'.peer_list :
             (ev'.h = "server_recv" /\ ev'.addr = a /\ server.peer_list[a].must_ack)
                => server'.peer_list[a].must_ack]_vars

\* C32 case: the client, whose queue was empty when it took a reliable
\* packet of the server's application, has run its service timer and
\* transmitted one datagram, a NOOP that carries the ACK of that packet
C32_NoopCarriesAck ==
    /\ ev.h = "client_service"
    /\ ev.dropped = 0
    /\ ev.waited = 1
    /\ client.peer.state = PEER_RUN
    /\ Len(ev.tx) = 1
    /\ ev.tx[1].command = RUDP_CMD_NOOP
    /\ HasOpt(ev.tx[1].opt, RUDP_OPT_ACK)
    /\ ev.tx[1].reliable_ack = client.peer.in_seq_reliable
    /\ \E k \in 1 .. Len(obs.cup) :
          obs.cup[k].rel /\ obs.cup[k].reliable = ev.tx[1].reliable_ack
(***************************************************************************)
(* peer.c: out_seq_acked against the send queue                            *)
(***************************************************************************)
\* what lies between out_seq_acked and out_seq_reliable beyond the reliable
\* packets the send queue of q holds
Unaccounted(q) ==
    U16(q.out_seq_reliable - q.out_seq_acked
           - Cardinality({i \in 1 .. Len(q.sendq) :
                             HasOpt(q.sendq[i].opt, RUDP_OPT_RELIABLE)}))

\* C33: in every reachable state, out_seq_acked equals out_seq_reliable
\* minus the number of reliable packets held in the send queue (16-bit
\* modular arithmetic).
C33_AckedIsRelMinusQueued ==
    /\ client.peer.source => Unaccounted(client.peer) = 0
    /\ \A a \in DOMAIN server.peer_list : Unaccounted(server.peer_list[a]) = 0

\* C33 case: the server's peer for the client, just created by a CONN_REQ
\* and in RUN, holds no reliable packet, only its CONN_RSP, which is
\* unreliable, and its out_seq_acked is one behind out_seq_reliable
C33_OneBehind ==
    /\ ev.h = "server_recv"
    /\ ev.pkt.command = RUDP_CMD_CONN_REQ
    /\ ev.addr \in DOMAIN server.peer_list
    /\ server.peer_list[ev.addr].state = PEER_RUN
    /\ Len(server.peer_list[ev.addr].sendq) = 1
    /\ server.peer_list[ev.addr].sendq[1].command = RUDP_CMD_CONN_RSP
    /\ ~HasOpt(server.peer_list[ev.addr].sendq[1].opt, RUDP_OPT_RELIABLE)
    /\ server.peer_list[ev.addr].out_seq_acked
          = U16(server.peer_list[ev.addr].out_seq_reliable - 1)
(***************************************************************************)
(* peer.c: the sequence numbers of the packets in the send queue           *)
(***************************************************************************)
\* The send queue of q, head to tail.  Its reliable entries carry
\* consecutive sequences that end at out_seq_reliable, and 0 as unreliable
\* sequence.  An unreliable entry carries the sequence of the reliable entry
\* it follows (of the one just before the first reliable entry, or
\* out_seq_reliable, if it follows none), and one more as unreliable
\* sequence than an unreliable entry right before it; the last, if it is
\* the tail of the queue, carries out_seq_unreliable.
Numbered(q) ==
    LET n == Len(q.sendq)
        rel(i) == HasOpt(q.sendq[i].opt, RUDP_OPT_RELIABLE)
        rels == {i \in 1 .. n : rel(i)}
        epoch(i) ==
            IF \E j \in rels : j < i
            THEN q.sendq[CHOOSE j \in rels :
                            j < i /\ \A k \in rels : k < i => k <= j].reliable
            ELSE IF rels # {}
            THEN U16(q.sendq[CHOOSE j \in rels : \A k \in rels : j <= k].reliable - 1)
            ELSE q.out_seq_reliable
    IN  /\ \A i \in rels :
              /\ q.sendq[i].unreliable = 0
              /\ q.sendq[i].reliable
                    = U16(q.out_seq_reliable - Cardinality({j \in rels : j > i}))
        /\ \A i \in (1 .. n) \ rels :
              /\ q.sendq[i].reliable = epoch(i)
              /\ q.sendq[i].unreliable >= 1
              /\ (i > 1 /\ ~rel(i - 1))
                    => q.sendq[i].unreliable = q.sendq[i - 1].unreliable + 1
              /\ i = n => q.sendq[i].unreliable = q.out_seq_unreliable

\* C34: in every reachable state the reliable entries of the send queue,
\* read from head to tail, carry consecutive reliable sequence numbers
\* (mod 2^16) ending at out_seq_reliable, each with unreliable field 0;
\* every unreliable entry carries the reliable sequence that was current at
\* its enqueue and an unreliable sequence that increases by 1 within an
\* epoch and restarts at 1 after each reliable enqueue (out_seq_unreliable
\* is 0 right after a reliable enqueue).
C34_QueueNumbered ==
    /\ [](/\ client.peer.source => Numbered(client.peer)
          /\ \A a \in DOMAIN server.peer_list : Numbered(server.peer_list[a]))
    /\ [][LET enqueued(p, q) ==
                 LET e == q.sendq[Len(q.sendq)]
                 IN  /\ q.sendq = Append(p.sendq, e)
                     /\ IF HasOpt(e.opt, RUDP_OPT_RELIABLE)
                        THEN /\ e.reliable = U16(p.out_seq_reliable + 1)
                             /\ q.out_seq_reliable = e.reliable
                             /\ e.unreliable = 0
                             /\ q.out_seq_unreliable = 0
                        ELSE /\ e.reliable = p.out_seq_reliable
                             /\ q.out_seq_reliable = p.out_seq_reliable
                             /\ e.unreliable = p.out_seq_unreliable + 1
                             /\ q.out_seq_unreliable = e.unreliable
          IN  /\ (ev'.h = "client_send" /\ ev'.err = 0)
                   => enqueued(client.peer, client'.peer)
              /\ \A a \in DOMAIN server.peer_list :
                    (ev'.h = "server_send" /\ ev'.addr = a)
                       => enqueued(server.peer_list[a], server'.peer_list[a])]_vars

\* C34 case: the client has just enqueued an unreliable packet of the
\* application behind a transmitted reliable one: it carries the sequence
\* of that reliable packet, which is out_seq_reliable, and 1, the first
\* unreliable sequence of its epoch
C34_FirstOfEpoch ==
    /\ ev.h = "client_send"
    /\ client.peer.source
    /\ client.peer.state = PEER_RUN
    /\ Len(client.peer.sendq) = 2
    /\ ReliableApp(client.peer.sendq[1])
    /\ HasOpt(client.peer.sendq[1].opt, RUDP_OPT_RETRANSMITTED)
    /\ client.peer.sendq[1].reliable = client.peer.out_seq_reliable
    /\ ~HasOpt(client.peer.sendq[2].opt, RUDP_OPT_RELIABLE)
    /\ client.peer.sendq[2].reliable = client.peer.out_seq_reliable
    /\ client.peer.sendq[2].unreliable = 1
    /\ client.peer.out_seq_unreliable = 1
(***************************************************************************)
(* peer.c: RUDP_OPT_RETRANSMITTED in the send queue and on the wire        *)
(***************************************************************************)
\* the send queue of q is a run of reliable entries that carry
\* RETRANSMITTED followed by a run of entries that do not
FlaggedPrefix(q) ==
    \A i \in 1 .. Len(q.sendq) :
       HasOpt(q.sendq[i].opt, RUDP_OPT_RETRANSMITTED)
          => /\ HasOpt(q.sendq[i].opt, RUDP_OPT_RELIABLE)
             /\ i > 1 => HasOpt(q.sendq[i - 1].opt, RUDP_OPT_RETRANSMITTED)

\* C35: in every reachable state the send queue consists of a (possibly
\* empty) run of reliable entries that have been transmitted at least once
\* (RETRANSMITTED set) followed by a (possibly empty) run of entries that
\* have never been transmitted; no unreliable entry ever carries
\* RETRANSMITTED, the first transmission of every reliable packet goes out
\* with RETRANSMITTED clear and every later transmission of it with
\* RETRANSMITTED set, and at most one datagram with RETRANSMITTED set is
\* transmitted per service invocation.
C35_TransmittedFirst ==
    /\ [](/\ client.peer.source => FlaggedPrefix(client.peer)
          /\ \A a \in DOMAIN server.peer_list :
                FlaggedPrefix(server.peer_list[a]))
    /\ [][LET sound(p, q) ==
                 /\ Flagged(p, ev'.tx)
                 /\ \A i \in 1 .. Len(ev'.tx) :
                       HasOpt(ev'.tx[i].opt, RUDP_OPT_RETRANSMITTED)
                          => HasOpt(ev'.tx[i].opt, RUDP_OPT_RELIABLE)
                 /\ Cardinality({i \in 1 .. Len(ev'.tx) :
                        HasOpt(ev'.tx[i].opt, RUDP_OPT_RETRANSMITTED)}) <= 1
                 /\ \A i \in 1 .. Len(ev'.tx) :
                       HasOpt(ev'.tx[i].opt, RUDP_OPT_RELIABLE)
                          => \E j \in 1 .. Len(q.sendq) :
                                /\ q.sendq[j].reliable = ev'.tx[i].reliable
                                /\ HasOpt(q.sendq[j].opt, RUDP_OPT_RELIABLE)
                                /\ HasOpt(q.sendq[j].opt, RUDP_OPT_RETRANSMITTED)
          IN  /\ (ev'.h = "client_service" /\ ev'.dropped = 0)
                   => sound(client.peer, client'.peer)
              /\ \A a \in DOMAIN server.peer_list \cap DOMAIN server'.peer_list :
                    (ev'.h = "server_service" /\ ev'.addr = a /\ ev'.dropped = 0)
                       => sound(server.peer_list[a], server'.peer_list[a])]_vars

\* C35 case: the client holds two transmitted reliable packets of its
\* application at the head of its queue, and its service timer has
\* transmitted one datagram, the first of them again, with RETRANSMITTED
C35_TwoTransmittedOneSent ==
    /\ ev.h = "client_service"
    /\ ev.dropped = 0
    /\ client.peer.source
    /\ Len(client.peer.sendq) >= 2
    /\ ReliableApp(client.peer.sendq[1])
    /\ ReliableApp(client.peer.sendq[2])
    /\ HasOpt(client.peer.sendq[1].opt, RUDP_OPT_RETRANSMITTED)
    /\ HasOpt(client.peer.sendq[2].opt, RUDP_OPT_RETRANSMITTED)
    /\ Len(ev.tx) = 1
    /\ ev.tx[1].reliable = client.peer.sendq[1].reliable
    /\ HasOpt(ev.tx[1].opt, RUDP_OPT_RETRANSMITTED)
C37_DeadlineRefreshed ==
    [][LET pc == ev'.pkt
           refreshed(p, q) ==
               LET broken == /\ HasOpt(pc.opt, RUDP_OPT_ACK)
                             /\ peer_handle_ack_broken(p, pc.reliable_ack)
               IN  /\ broken <=> ev'.err = EINVAL
                   /\ q.abs_timeout_deadline =
                         IF ~broken /\ Classified(p, pc) # UNSEQUENCED
                         THEN now + DROP_TIMEOUT
                         ELSE p.abs_timeout_deadline
       IN  /\ (ev'.h = "client_recv" /\ ev'.dropped = 0 /\ client.peer.source)
              => refreshed(client.peer, client'.peer)
           /\ \A a \in DOMAIN server.peer_list \cap DOMAIN server'.peer_list :
                 (ev'.h = "server_recv" /\ ev'.addr = a)
                    => refreshed(server.peer_list[a], server'.peer_list[a])]_vars

\* The client has just taken the CONN_RSP through the unsequenced handshake
\* path, some time after it connected: it is in RUN and its deadline is
\* still the one its reset set.
C37_HandshakeKeepsDeadline ==
    /\ ev.h = "client_recv"
    /\ ev.pkt.command = RUDP_CMD_CONN_RSP
    /\ ev.err = 0
    /\ client.peer.state = PEER_RUN
    /\ client.peer.in_seq_reliable = ev.pkt.reliable
    /\ client.peer.abs_timeout_deadline < now + DROP_TIMEOUT
(***************************************************************************)
(* peer.c: the timeout state.  Only srtt, rttvar and rto of one engine     *)
(* move: peer_handle_pong takes a round-trip sample, peer_send_queue backs *)
(* off when it sends the head of the queue again.                          *)
(***************************************************************************)
HandlePong ==
    /\ client.peer.source
    /\ \E delta \in 0 .. MaxSample :
          /\ client' = [client EXCEPT !.peer = peer_update_rtt(@, delta)]
          /\ ev' = [Quiet("handle_pong") EXCEPT !.waited = delta]
    /\ UNCHANGED <<now, server, net, app, obs>>

Backoff ==
    /\ client.peer.source
    /\ client' = [client EXCEPT !.peer = peer_rto_backoff(@)]
    /\ ev' = [Quiet("rto_backoff") EXCEPT !.waited = client.peer.rto]
    /\ UNCHANGED <<now, server, net, app, obs>>

NextRtt ==
    \/ ClientConnect(DataConnects)
    \/ HandlePong
    \/ Backoff

SpecRtt == Init /\ [][NextRtt]_vars

\* C38: after any sequence of round-trip updates, with any non-negative
\* samples, 0 ms included, and retransmit backoffs, rto stays within
\* 1 .. MAX_RTO milliseconds, so that every retransmission of an
\* unacknowledged packet doubles the wait until the 3000 ms cap is reached.
C38_RtoInRange ==
    /\ [](client.peer.source => client.peer.rto \in 1 .. MAX_RTO)
    /\ [][ev'.h = "rto_backoff"
            => /\ client'.peer.rto =
                    (IF 2 * client.peer.rto > MAX_RTO
                     THEN MAX_RTO ELSE 2 * client.peer.rto)
               /\ client.peer.rto < MAX_RTO
                    => client'.peer.rto > client.peer.rto]_vars

\* Round trips of 0 ms have brought srtt and rto to 0, and a backoff has
\* left rto there.
C38_RtoStuckAtZero ==
    /\ client.peer.source
    /\ ev.h = "rto_backoff"
    /\ ev.waited = 0
    /\ client.peer.srtt = 0
    /\ client.peer.rto = 0
\* C39: srtt and rttvar change only when a sequenced PONG is processed by a
\* peer in RUN; for a sample rtt = now - echoed timestamp the new values are
\* rttvar = (3*rttvar + |srtt - rtt|) div 4, computed with the old srtt,
\* srtt = (7*srtt + rtt) div 8, and rto = min(new srtt, MAX_RTO), with
\* integer division (srtt = 100, rtt = 80 gives srtt = 97, rttvar = 42,
\* rto = 97).  An engine is followed from its reset on: estimated(p, q, got)
\* reads p before the step and q after it, got telling that the step gave
\* the packet ev'.pkt to that engine.
C39_RttOnlyBySequencedPong ==
    [][LET pc == ev'.pkt
           estimated(p, q, got) ==
               IF /\ got
                  /\ pc.command = RUDP_CMD_PONG
                  /\ ev'.err = 0
                  /\ Classified(p, pc) = SEQUENCED
                  /\ p.state = PEER_RUN
               THEN LET rtt == now - pc.data
                    IN  /\ q.rttvar = (3 * p.rttvar + labs(p.srtt - rtt)) \div 4
                        /\ q.srtt = (7 * p.srtt + rtt) \div 8
                        /\ q.rto = IF q.srtt > MAX_RTO THEN MAX_RTO ELSE q.srtt
               ELSE /\ q.srtt = p.srtt
                    /\ q.rttvar = p.rttvar
           example == peer_update_rtt([NoPeer EXCEPT !.srtt = 100,
                                                     !.rttvar = 50], 80)
       IN  /\ (/\ client.peer.source
               /\ client'.peer.source
               /\ ev'.dropped = 0
               /\ ev'.h \notin {"connect", "close"})
              => estimated(client.peer, client'.peer, ev'.h = "client_recv")
           /\ \A a \in DOMAIN server.peer_list \cap DOMAIN server'.peer_list :
                 estimated(server.peer_list[a], server'.peer_list[a],
                           ev'.h = "server_recv" /\ ev'.addr = a)
           /\ example.srtt = 97
           /\ example.rttvar = 42
           /\ example.rto = 97]_vars

\* The client, in RUN, has just taken a sequenced PONG and moved its
\* estimate off the values of the reset.
C39_EstimateMoved ==
    /\ ev.h = "client_recv"
    /\ ev.pkt.command = RUDP_CMD_PONG
    /\ ev.err = 0
    /\ client.peer.source
    /\ client.peer.state = PEER_RUN
    /\ client.peer.srtt = 87
    /\ client.peer.rttvar = 62
    /\ client.peer.rto = 87
(***************************************************************************)
(* peer.c, endpoint.c: sendto may fail.  peer_send_queue does not look at  *)
(* what peer_send_raw returns, so a service run whose datagrams the socket *)
(* refuses leaves the engine as a run that sent them all, except for       *)
(* sendto_err, which holds the result of the last call.  obs.cerr is that  *)
(* result as the socket gave it, 0 from a reset on.                        *)
(***************************************************************************)
RECURSIVE Accepted(_, _, _)
Accepted(tx, i, refused) ==
    IF i > Len(tx) THEN <<>>
    ELSE (IF i \in refused THEN <<>> ELSE <<tx[i]>>)
             \o Accepted(tx, i + 1, refused)

client_service_sendto(w, t, rnd, again, rnd2, refused) ==
    LET c == peer_service(Ctx(w.cl.peer), t)
        last == IF c.tx = <<>> THEN w.obs.cerr
                ELSE IF Len(c.tx) \in refused THEN ENETUNREACH ELSE 0
        w1 == client_transmit([w EXCEPT !.cl.peer = c.p,
                                        !.obs.cwait = 0,
                                        !.obs.cowe = FALSE,
                                        !.obs.cerr = last],
                              Accepted(c.tx, 1, refused))
        w2 == IF Len(c.tx) \in refused
              THEN [w1 EXCEPT !.cl.peer.sendto_err = ENETUNREACH] ELSE w1
    IN  IF c.dropped > 0 THEN client_dropped(w2, t, rnd, again, rnd2) ELSE w2

ClientServiceSendto(maxc) ==
    /\ client.peer.scheduled
    /\ client.peer.wake <= now
    /\ LET c == peer_service(Ctx(client.peer), now)
       IN  \E rnd \in RandomIf(c.dropped > 0),
              again \in ChoiceIf(c.dropped > 0 /\ app.connects < maxc),
              refused \in SUBSET (1 .. Len(c.tx)) :
             \E rnd2 \in RandomIf(again) :
                /\ Commit(client_service_sendto(World, now, rnd, again, rnd2,
                                                refused))
                /\ ev' = [Ev("client_service", client.addr, NoPacket, c)
                              EXCEPT !.waited = obs.cwait,
                                     !.err = IF Len(c.tx) \in refused
                                             THEN ENETUNREACH ELSE 0]
    /\ UNCHANGED <<now, server>>

\* rudp_client_send of an application that goes on whatever it returns
ClientEnqueue(maxs) ==
    /\ client.peer.source
    /\ client.connected
    /\ app.csent < maxs
    /\ \E reliable \in BOOLEAN :
          client' = rudp_client_send(client, reliable, 0, app.csent + 1, now)
    /\ app' = [app EXCEPT !.csent = @ + 1]
    /\ ev' = [Quiet("client_send") EXCEPT
                  !.err = rudp_client_send_ret(client, 0),
                  !.queued = Len(client.peer.sendq)]
    /\ UNCHANGED <<now, server, net, obs>>

NextSendto ==
    \/ ClientConnect(DataConnects)
    \/ ClientEnqueue(MaxSend)
    \/ ClientRecv(DataConnects)
    \/ ClientServiceSendto(DataConnects)
    \/ ServerRecv
    \/ ServerService
    \/ Tick(MaxTime)

SpecSendto == Init /\ [][NextSendto]_vars

\* C40: an enqueue call (rudp_peer_send_reliable or
\* rudp_peer_send_unreliable) returns the result of the most recent
\* transmission attempt of the peer (0 if it succeeded or if nothing was sent
\* since the last reset), and its packet is appended to the send queue
\* whatever value is returned; a failed transmission is not retried within
\* the call, only by the normal retransmission cycle: the call transmits
\* nothing, and a service run leaves every reliable packet it sent in the
\* queue, flagged, whether the socket took it or not.
C40_EnqueueReturnsLastResult ==
    [][/\ ev'.h = "client_send"
          => /\ ev'.err = obs.cerr
             /\ Len(client'.peer.sendq) = Len(client.peer.sendq) + 1
             /\ SubSeq(client'.peer.sendq, 1, Len(client.peer.sendq))
                   = client.peer.sendq
             /\ client'.peer.sendq[Len(client'.peer.sendq)].data = app'.csent
             /\ client'.peer.sendto_err = client.peer.sendto_err
             /\ net' = net
       /\ (ev'.h = "client_service" /\ ev'.dropped = 0)
          => /\ client'.peer.sendto_err = obs'.cerr
             /\ \A i \in 1 .. Len(ev'.tx) :
                   HasOpt(ev'.tx[i].opt, RUDP_OPT_RELIABLE)
                      => \E k \in 1 .. Len(client'.peer.sendq) :
                            /\ client'.peer.sendq[k].reliable = ev'.tx[i].reliable
                            /\ HasOpt(client'.peer.sendq[k].opt,
                                      RUDP_OPT_RETRANSMITTED)]_vars

\* The socket refused the last datagram of the client's service run; the
\* application's next send returned that error, and its packet is in the
\* queue.
C40_ErrorReturnedPacketQueued ==
    /\ ev.h = "client_send"
    /\ ev.err = ENETUNREACH
    /\ Len(client.peer.sendq) = ev.queued + 1
    /\ client.peer.sendq[Len(client.peer.sendq)].data = app.csent
    /\ client.peer.scheduled
====
